---- MODULE Spec2Model ----
(***************************************************************************)
(* Verification model of the agent-parksuite hybrid-answer core:           *)
(*   - the resolver pipeline intent_slot_parse -> slot_hydrate ->           *)
(*     react_clarify_gate (services/intent_slot_resolver.py,                *)
(*     services/react_clarify_gate.py, workflows/clarify_react_graph.py)    *)
(*   - the hybrid answering turn with session memory                        *)
(*     (services/hybrid_answering.py, workflows/hybrid_answer.py,           *)
(*     tools/biz_fact_tools.py, services/memory.py)                         *)
(*                                                                          *)
(* Python None is the value NULL.  A query is a sequence of the tokens the  *)
(* code searches for; the Chinese tokens are written in pinyin:             *)
(*   zhebi = 这笔, diyibi = 第一笔, diyidan = 第一单, heyan = 核验,        *)
(*   dingdan = 订单, fuhe = 复核, qianfei = 欠费.                           *)
(***************************************************************************)
EXTENDS Integers, Sequences, FiniteSets, TLC

VARIABLES
    \* ---- resolver turn (resolve_turn_context_async / debug_clarify_react)
    pc,              \* position of the resolver turn
    payload,         \* the request (HybridAnswerRequest)
    memory_state,    \* the session memory handed to the resolver
    required_slots_override, \* debug route's required_slots (<<>> when absent)
    parse_result,    \* IntentSlotParseResult
    hydrate_result,  \* SlotHydrateResult
    react_calls,     \* how often clarify_agent.run_clarify_task was invoked
    react_result,    \* outcome of run_clarify_task: [kind |-> "none" | "raised" | "returned"]
    gate_result,     \* ReactClarifyGateResult
    \* ---- hybrid turn (run_hybrid_answering) and the session store
    store,           \* InMemorySessionMemoryRepo._store: session_id -> state
    hpc,             \* position of the hybrid turn
    hreq,            \* the request as received
    hpayload,        \* the request after _apply_memory_hydrate
    hmem,            \* memory state read at entry
    hresult,         \* HybridGraphState being built
    calls,           \* external calls made in this turn, in order
    turns_done,      \* number of finished hybrid turns
    turn,            \* overlapping hybrid turns: the locals of each
    last_writer,     \* per session, the turn whose save_session ran last
    arrived,         \* the turns a session has completed, in arrival order
    \* ---- biz-api billing engine (simulate_fee)
    bill,            \* one fee simulation: its inputs, loop state and result
    \* ---- rag-core knowledge repository
    kb,              \* sources, chunks and the last call's outcome
    \* ---- one run of the ReAct clarify agent inside the gate
    react            \* the run's position, step count, tool results and outcome

rvars == <<pc, payload, memory_state, required_slots_override, parse_result,
           hydrate_result, react_calls, react_result, gate_result>>
hvars == <<store, hpc, hreq, hpayload, hmem, hresult, calls, turns_done>>
ovars == <<turn, last_writer, arrived>>
xvars == <<bill, kb, react>>
vars == <<rvars, hvars, ovars, xvars>>

NULL == "null"

\* An optional composite value: None is <<>>, a present value x is <<x>>.
None == <<>>
Some(x) == <<x>>

\* No session memory: get_session returned None (the code treats an empty
\* state the same way: "if not memory_state", "previous_state or {}").
NoMemory == <<>>
HasMemory(mem) == DOMAIN mem /= {}

\* --------------------------------------------------------------- bounds
\* tool calls the ReAct agent may make in one invocation
MaxToolCalls == 1
\* hybrid turns in one behaviour
MaxTurns == 2

\* ------------------------------------------------------------ constants
VALID_INTENTS == {"rule_explain", "arrears_check", "fee_verify"}
SLOT_KEYS == <<"city_code", "lot_code", "plate_no", "order_no", "at_time">>
MEMORY_HYDRATE_KEYS == <<"city_code", "lot_code", "plate_no">>
ORDER_REF_TOKENS == {"shangyidan", "shangyibi", "zhebi", "zhedan", "diyibi"}

SlotKeySet == {SLOT_KEYS[i] : i \in 1..Len(SLOT_KEYS)}

\* Python truthiness of an optional string
Truthy(v) == v /= NULL /\ v /= ""

\* ------------------------------------------------------------- helpers
\* re.compile(r"\bSCN-\d+\b", re.IGNORECASE): the tokens that match it
OrderTokens == {"scn-1", "SCN-1", "SCN-2"}

\* str.upper() on a matched order token
Upper(t) == IF t = "scn-1" THEN "SCN-1" ELSE t

RECURSIVE FirstOrderToken(_)
FirstOrderToken(q) ==
    IF q = <<>> THEN NULL
    ELSE IF Head(q) \in OrderTokens THEN Head(q)
    ELSE FirstOrderToken(Tail(q))

ExtractOrderNoFromQuery(q) ==
    LET m == FirstOrderToken(q)
    IN IF m = NULL THEN NULL ELSE Upper(m)

WantsOrderReference(q) ==
    \E i \in 1..Len(q) : q[i] \in ORDER_REF_TOKENS

RequiredSlotsForIntent(intent) ==
    IF intent = "fee_verify" THEN <<"order_no">>
    ELSE IF intent = "arrears_check" THEN <<"plate_no">>
    ELSE <<>>

SeqToSet(s) == {s[i] : i \in 1..Len(s)}

\* [slot for slot in required if payload.slot is None]
MissingOf(required, p) == SelectSeq(required, LAMBDA k : p[k] = NULL)

BuildFieldSources(p) ==
    [k \in SlotKeySet |-> IF p[k] /= NULL THEN "user" ELSE NULL]

\* ------------------------------------------------ Step 1: intent_slot_parse
Strip(h) == IF h = " fee_verify" THEN "fee_verify" ELSE h

IntentSlotParseDeterministic(p) ==
    LET field_sources0 == BuildFieldSources(p)
        intent_raw == IF p.intent_hint = NULL THEN "" ELSE Strip(p.intent_hint)
        intent == IF intent_raw \in VALID_INTENTS THEN intent_raw ELSE NULL
        extracted == IF p.order_no = NULL
                     THEN ExtractOrderNoFromQuery(p.query) ELSE NULL
        parsed_payload == IF extracted /= NULL
                          THEN [p EXCEPT !.order_no = extracted] ELSE p
        field_sources == IF extracted /= NULL
                         THEN [field_sources0 EXCEPT !["order_no"] = "inferred"]
                         ELSE field_sources0
        ambiguous == parsed_payload.order_no = NULL
                     /\ WantsOrderReference(parsed_payload.query)
    IN [payload |-> parsed_payload,
        intent |-> intent,
        intent_confidence |-> IF intent /= NULL THEN "1.0" ELSE NULL,
        field_sources |-> field_sources,
        missing_required_slots |->
            MissingOf(RequiredSlotsForIntent(intent), parsed_payload),
        ambiguities |-> IF ambiguous THEN <<"order_reference">> ELSE <<>>,
        trace |-> <<"intent_slot_parse:deterministic">>
                  \o (IF extracted /= NULL
                      THEN <<"intent_slot_parse:order_no_from_query">> ELSE <<>>)
                  \o (IF ambiguous
                      THEN <<"intent_slot_parse:order_reference">> ELSE <<>>)]

LLM_SLOT_KEYS == {"order_no", "plate_no", "city_code", "lot_code"}

RECURSIVE AppendNew(_, _)
AppendNew(base, labels) ==
    IF labels = <<>> THEN base
    ELSE AppendNew(IF Head(labels) /= "" /\ Head(labels) \notin SeqToSet(base)
                   THEN Append(base, Head(labels)) ELSE base,
                   Tail(labels))

\* a parser that gives up what the deterministic pass found when the LLM fails
IntentSlotParseDropsOnFailure(p, llm) ==
    LET deterministic == IntentSlotParseDeterministic(p)
        bare == [deterministic EXCEPT
                   !.payload = p,
                   !.field_sources = BuildFieldSources(p),
                   !.ambiguities = <<>>]
    IN IF deterministic.intent \in VALID_INTENTS THEN deterministic
       ELSE IF llm.kind = "error"
       THEN [bare EXCEPT
               !.trace = @ \o <<"intent_slot_parse:llm_error_fallback">>]
       ELSE IF llm.kind = "invalid_json"
       THEN [bare EXCEPT
               !.trace = @ \o <<"intent_slot_parse:llm_invalid_json_fallback">>]
       ELSE [deterministic EXCEPT
               !.trace = @ \o <<"intent_slot_parse:llm">>]

\* a parser whose LLM slots replace whatever the deterministic pass holds
IntentSlotParseLlmWins(p, llm) ==
    LET deterministic == IntentSlotParseDeterministic(p)
    IN IF deterministic.intent \in VALID_INTENTS THEN deterministic
       ELSE IF llm.kind = "error"
       THEN [deterministic EXCEPT
               !.trace = @ \o <<"intent_slot_parse:llm_error_fallback">>]
       ELSE IF llm.kind = "invalid_json"
       THEN [deterministic EXCEPT
               !.trace = @ \o <<"intent_slot_parse:llm_invalid_json_fallback">>]
       ELSE
         LET intent == IF llm.intent \in VALID_INTENTS
                       THEN llm.intent ELSE deterministic.intent
             fill(k) == k \in LLM_SLOT_KEYS /\ Truthy(llm.slots[k])
             merged_payload ==
                 [k \in DOMAIN deterministic.payload |->
                     IF fill(k) THEN llm.slots[k] ELSE deterministic.payload[k]]
         IN [payload |-> merged_payload,
             intent |-> intent,
             intent_confidence |-> llm.intent_confidence,
             field_sources |->
                 [k \in SlotKeySet |->
                     IF fill(k) THEN "inferred"
                     ELSE deterministic.field_sources[k]],
             missing_required_slots |->
                 MissingOf(RequiredSlotsForIntent(intent), merged_payload),
             ambiguities |-> AppendNew(deterministic.ambiguities, llm.ambiguities),
             trace |-> deterministic.trace \o <<"intent_slot_parse:llm">>]

\* _intent_slot_parse; llm is the outcome of the one LLM call:
\*   [kind |-> "error"], [kind |-> "invalid_json"] or
\*   [kind |-> "json", intent, intent_confidence, slots, ambiguities]
IntentSlotParse(p, llm) ==
    LET deterministic == IntentSlotParseDeterministic(p)
    IN IF deterministic.intent \in VALID_INTENTS THEN deterministic
       ELSE IF llm.kind = "error"
       THEN [deterministic EXCEPT
               !.trace = @ \o <<"intent_slot_parse:llm_error_fallback">>]
       ELSE IF llm.kind = "invalid_json"
       THEN [deterministic EXCEPT
               !.trace = @ \o <<"intent_slot_parse:llm_invalid_json_fallback">>]
       ELSE
         LET intent == IF llm.intent \in VALID_INTENTS
                       THEN llm.intent ELSE deterministic.intent
             fill(k) == k \in LLM_SLOT_KEYS
                        /\ deterministic.payload[k] = NULL
                        /\ Truthy(llm.slots[k])
             merged_payload ==
                 [k \in DOMAIN deterministic.payload |->
                     IF fill(k) THEN llm.slots[k] ELSE deterministic.payload[k]]
             field_sources ==
                 [k \in SlotKeySet |->
                     IF fill(k) THEN "inferred"
                     ELSE deterministic.field_sources[k]]
         IN [payload |-> merged_payload,
             intent |-> intent,
             intent_confidence |->
                 IF llm.intent_confidence /= NULL THEN llm.intent_confidence
                 ELSE deterministic.intent_confidence,
             field_sources |-> field_sources,
             missing_required_slots |->
                 MissingOf(RequiredSlotsForIntent(intent), merged_payload),
             ambiguities |-> AppendNew(deterministic.ambiguities, llm.ambiguities),
             trace |-> deterministic.trace \o <<"intent_slot_parse:llm">>]

\* ------------------------------------------------ Step 2: slot_hydrate
\* a hydrator that lets memory win over the turn's own value
SlotHydrateOverwrites(pr, p, mem) ==
    IF ~HasMemory(mem)
    THEN [payload |-> p,
          field_sources |-> pr.field_sources,
          missing_required_slots |-> pr.missing_required_slots,
          trace |-> <<"slot_hydrate:none">>]
    ELSE
      LET slots == mem.slots
          carry(k) == Truthy(slots[k])
          carried == SelectSeq(MEMORY_HYDRATE_KEYS, carry)
          needed == SelectSeq(RequiredSlotsForIntent(pr.intent), carry)
          updated == SeqToSet(carried) \cup SeqToSet(needed)
          hydrated == [k \in DOMAIN p |-> IF k \in updated THEN slots[k] ELSE p[k]]
      IN [payload |-> hydrated,
          field_sources |-> [k \in SlotKeySet |->
                               IF k \in updated THEN "memory"
                               ELSE pr.field_sources[k]],
          missing_required_slots |->
              MissingOf(RequiredSlotsForIntent(pr.intent), hydrated),
          trace |-> <<"slot_hydrate:hit">>]

SlotHydrate(pr, p, mem) ==
    IF ~HasMemory(mem)
    THEN [payload |-> p,
          field_sources |-> pr.field_sources,
          missing_required_slots |-> pr.missing_required_slots,
          trace |-> <<"slot_hydrate:none">>]
    ELSE
      LET slots == mem.slots
          required_slots == RequiredSlotsForIntent(pr.intent)
          carry(k) == p[k] = NULL /\ Truthy(slots[k])
          carried == SelectSeq(MEMORY_HYDRATE_KEYS, carry)
          needed == SelectSeq(required_slots, carry)
          updated == SeqToSet(carried) \cup SeqToSet(needed)
          hydrated == [k \in DOMAIN p |-> IF k \in updated THEN slots[k] ELSE p[k]]
          traces == [i \in 1..Len(carried) |-> "slot_hydrate:" \o carried[i]]
                    \o [i \in 1..Len(needed) |-> "slot_hydrate:required:" \o needed[i]]
      IN [payload |-> hydrated,
          field_sources |-> [k \in SlotKeySet |->
                               IF k \in updated THEN "memory"
                               ELSE pr.field_sources[k]],
          missing_required_slots |->
              MissingOf(RequiredSlotsForIntent(pr.intent), hydrated),
          trace |-> IF traces = <<>> THEN <<"slot_hydrate:hit">> ELSE traces]

\* ------------------------------------------------ ReAct clarify sub-agent
\* A serialized message: [role, tool, hit, tool_call_id]; tool and hit are the
\* "tool" and "hit" members of a tool message's JSON content.
UserMsg == [role |-> "user", tool |-> NULL, hit |-> NULL, tool_call_id |-> NULL]
AiMsg == [role |-> "assistant", tool |-> NULL, hit |-> NULL, tool_call_id |-> NULL]
ToolMsg(t, h) == [role |-> "tool", tool |-> t, hit |-> h, tool_call_id |-> "call"]

MemGet(mem, field, default) ==
    IF field \in DOMAIN mem THEN mem[field] ELSE default

\* ReActClarifyAgent._load_history_messages
LoadHistoryMessages(mem) ==
    IF ~HasMemory(mem) THEN <<>>
    ELSE SelectSeq(MemGet(mem, "clarify_messages", <<>>),
                   LAMBDA m : \/ m.role \in {"user", "assistant", "system"}
                              \/ (m.role = "tool" /\ Truthy(m.tool_call_id)))

MissingSlots(required_slots, resolved_slots) ==
    SelectSeq(required_slots, LAMBDA k : ~Truthy(resolved_slots[k]))

MergeSlotsFromPayload(p) == [k \in SlotKeySet |-> p[k]]

\* a normalisation whose slot_updates fill only the slots still empty
NormalizeActionAndSlotsFillsOnly(parsed, resolved_slots0, required_slots) ==
    LET action0 == IF parsed.action \in {"ask_user", "finish_clarify", "abort"}
                   THEN parsed.action ELSE "ask_user"
        kept(k) == Truthy(parsed.slot_updates[k])
        resolved_slots == [k \in SlotKeySet |->
                              IF kept(k) /\ resolved_slots0[k] = NULL
                              THEN parsed.slot_updates[k]
                              ELSE resolved_slots0[k]]
        missing == MissingSlots(required_slots, resolved_slots)
        action == IF action0 = "finish_clarify" /\ missing /= <<>>
                  THEN "ask_user" ELSE action0
    IN [action |-> action,
        decision |-> IF action = "ask_user" THEN "clarify_react"
                     ELSE IF action = "finish_clarify" THEN "continue_business"
                     ELSE "clarify_abort",
        clarify_question |->
            IF action = "ask_user" /\ ~Truthy(parsed.clarify_question)
            THEN "ask_key_info" ELSE parsed.clarify_question,
        missing_required_slots |-> missing,
        slot_updates |-> [k \in SlotKeySet |->
                            IF kept(k) THEN parsed.slot_updates[k] ELSE NULL],
        resolved_slots |-> resolved_slots,
        resolved_intent |-> parsed.resolved_intent,
        route_target |-> parsed.route_target,
        intent_evidence |-> parsed.intent_evidence]

\* a normalisation that takes the agent's finish_clarify at its word
NormalizeActionAndSlotsNoDowngrade(parsed, resolved_slots0, required_slots) ==
    LET action == IF parsed.action \in {"ask_user", "finish_clarify", "abort"}
                  THEN parsed.action ELSE "ask_user"
        kept(k) == Truthy(parsed.slot_updates[k])
        resolved_slots == [k \in SlotKeySet |->
                              IF kept(k) THEN parsed.slot_updates[k]
                              ELSE resolved_slots0[k]]
    IN [action |-> action,
        decision |-> IF action = "ask_user" THEN "clarify_react"
                     ELSE IF action = "finish_clarify" THEN "continue_business"
                     ELSE "clarify_abort",
        clarify_question |->
            IF action = "ask_user" /\ ~Truthy(parsed.clarify_question)
            THEN "ask_key_info" ELSE parsed.clarify_question,
        missing_required_slots |-> MissingSlots(required_slots, resolved_slots),
        slot_updates |-> [k \in SlotKeySet |->
                            IF kept(k) THEN parsed.slot_updates[k] ELSE NULL],
        resolved_slots |-> resolved_slots,
        resolved_intent |-> parsed.resolved_intent,
        route_target |-> parsed.route_target,
        intent_evidence |-> parsed.intent_evidence]

\* _normalize_action_and_slots; parsed is the final JSON of the agent
NormalizeActionAndSlots(parsed, resolved_slots0, required_slots) ==
    LET action0 == IF parsed.action \in {"ask_user", "finish_clarify", "abort"}
                   THEN parsed.action ELSE "ask_user"
        kept(k) == Truthy(parsed.slot_updates[k])
        slot_updates == [k \in SlotKeySet |->
                            IF kept(k) THEN parsed.slot_updates[k] ELSE NULL]
        resolved_slots == [k \in SlotKeySet |->
                              IF kept(k) THEN parsed.slot_updates[k]
                              ELSE resolved_slots0[k]]
        missing == MissingSlots(required_slots, resolved_slots)
        action == IF action0 = "finish_clarify" /\ missing /= <<>>
                  THEN "ask_user" ELSE action0
        decision == IF action = "ask_user" THEN "clarify_react"
                    ELSE IF action = "finish_clarify" THEN "continue_business"
                    ELSE "clarify_abort"
    IN [action |-> action,
        decision |-> decision,
        clarify_question |->
            IF action = "ask_user" /\ ~Truthy(parsed.clarify_question)
            THEN "ask_key_info" ELSE parsed.clarify_question,
        missing_required_slots |-> missing,
        slot_updates |-> slot_updates,
        resolved_slots |-> resolved_slots,
        resolved_intent |-> parsed.resolved_intent,
        route_target |-> parsed.route_target,
        intent_evidence |-> parsed.intent_evidence]

ToolMessages(results) ==
    [i \in 1..(2 * Len(results)) |->
        IF i % 2 = 1 THEN AiMsg
        ELSE ToolMsg(results[i \div 2].tool, results[i \div 2].hit)]

\* the result run_clarify_react_once builds from the normalised final JSON n
ClarifyReactResult(n, required_slots, trace0, final_messages) ==
    [decision |-> n.decision,
     clarify_question |-> n.clarify_question,
     resolved_slots |-> n.resolved_slots,
     slot_updates |-> n.slot_updates,
     resolved_intent |-> n.resolved_intent,
     route_target |-> n.route_target,
     intent_evidence |-> n.intent_evidence,
     missing_required_slots |-> MissingSlots(required_slots, n.resolved_slots),
     trace |-> Append(trace0, "clarify_react:agent:" \o n.action),
     messages |-> final_messages]

\* run_clarify_react_once followed by ReActClarifyAgent.run_clarify_task's
\* serialization; env = [tool_results, final] is what the agent graph did:
\* the tool calls it made and its last AI message, [kind |-> "text"] when that
\* holds no JSON object and [kind |-> "json", action, ...] when it does.
RunClarifyTask(p, required_slots, mem, env) ==
    LET history == LoadHistoryMessages(mem)
        final_messages == history \o <<UserMsg>>
                          \o ToolMessages(env.tool_results) \o <<AiMsg>>
        resolved_slots0 == MergeSlotsFromPayload(p)
        trace0 == <<"clarify_react:start", "clarify_react:agent:create_react_agent">>
    IN IF env.final.kind = "text"
       THEN [decision |-> "clarify_react",
             clarify_question |-> "ask_more_info",
             resolved_slots |-> resolved_slots0,
             slot_updates |-> [k \in SlotKeySet |-> NULL],
             resolved_intent |-> NULL,
             route_target |-> NULL,
             intent_evidence |-> <<>>,
             missing_required_slots |-> MissingSlots(required_slots, resolved_slots0),
             trace |-> trace0 \o <<"clarify_react:parse:fallback_ask_user",
                                   "clarify_react:agent:ask_user">>,
             messages |-> final_messages]
       ELSE ClarifyReactResult(
                NormalizeActionAndSlots(env.final, resolved_slots0, required_slots),
                required_slots, trace0, final_messages)

\* ------------------------------------------------ Step 3: react_clarify_gate
\* ShouldEnterReact reading the slots missing before hydration
ShouldEnterReactStale(pr, hr) ==
    IF pr.intent = NULL
    THEN [need_react |-> TRUE,
          trace |-> <<"react_clarify_gate_async:need_react:missing_intent">>]
    ELSE IF pr.missing_required_slots /= <<>>
    THEN [need_react |-> TRUE,
          trace |-> <<"react_clarify_gate_async:need_react:missing_required_slots">>]
    ELSE [need_react |-> FALSE, trace |-> <<>>]

\* _should_enter_react: [need_react, trace]
ShouldEnterReact(pr, hr) ==
    IF pr.intent = NULL
    THEN [need_react |-> TRUE,
          trace |-> <<"react_clarify_gate_async:need_react:missing_intent">>]
    ELSE IF hr.missing_required_slots /= <<>>
    THEN [need_react |-> TRUE,
          trace |-> <<"react_clarify_gate_async:need_react:missing_required_slots">>]
    ELSE [need_react |-> FALSE, trace |-> <<>>]

GateResult(decision, p, reason, error, trace, messages) ==
    [decision |-> decision, payload |-> p, clarify_reason |-> reason,
     clarify_error |-> error, trace |-> trace, clarify_messages |-> messages]

\* ShortCircuitIfPossible that hands a missing plate_no on to ReAct
ShortCircuitOrderOnly(pr, hr, trace) ==
    IF pr.intent = NULL \/ "order_no" \notin {hr.missing_required_slots[i] :
                                                i \in 1..Len(hr.missing_required_slots)}
    THEN <<>>
    ELSE <<[decision |-> "clarify_short_circuit", payload |-> hr.payload,
            clarify_reason |-> "ask_order_no", clarify_error |-> "missing_order_no",
            trace |-> Append(trace, "react_clarify_gate_async:short_circuit:missing_order_no"),
            clarify_messages |-> <<>>]>>

\* _short_circuit_if_possible: None when the gate has to go on to ReAct
ShortCircuitIfPossible(pr, hr, trace) ==
    IF pr.intent = NULL \/ hr.missing_required_slots = <<>> THEN None
    ELSE Some(
    IF "order_no" \in SeqToSet(hr.missing_required_slots)
    THEN GateResult("clarify_short_circuit", hr.payload, "ask_order_no",
                    "missing_order_no",
                    Append(trace, "react_clarify_gate_async:short_circuit:missing_order_no"),
                    None)
    ELSE IF "plate_no" \in SeqToSet(hr.missing_required_slots)
    THEN GateResult("clarify_short_circuit", hr.payload, "ask_plate_no",
                    "missing_plate_no",
                    Append(trace, "react_clarify_gate_async:short_circuit:missing_plate_no"),
                    None)
    ELSE GateResult("clarify_short_circuit", hr.payload, "ask_required",
                    "missing_required_slots",
                    Append(trace, "react_clarify_gate_async:short_circuit:missing_required_slots"),
                    None))

\* _collect_tool_hit_flags: the hit flag of the last tool message of `tool`
LastToolHit(messages, tool) ==
    LET flagged == {i \in 1..Len(messages) :
                       /\ messages[i].role = "tool"
                       /\ messages[i].tool = tool
                       /\ messages[i].hit \in {"hit", "miss"}}
    IN IF flagged = {} THEN NULL
       ELSE messages[CHOOSE i \in flagged : \A j \in flagged : j <= i].hit

CollectToolHitFlags(messages) ==
    [lookup_order |-> LastToolHit(messages, "lookup_order"),
     billing_rule |-> LastToolHit(messages, "query_billing_rules_by_params")]

\* FallbackResult that reports the agent's failure as a ReAct clarification
FallbackAsReact(hr, trace) ==
    [decision |-> "clarify_react", payload |-> hr.payload,
     clarify_reason |-> "clarify_unavailable", clarify_error |-> "clarify_fallback",
     trace |-> Append(trace, "react_clarify_gate_async:fallback:react_error"),
     clarify_messages |-> <<>>]

\* the except branch of _invoke_react_once
FallbackResult(hr, trace) ==
    GateResult("clarify_short_circuit", hr.payload, "clarify_unavailable",
               "clarify_fallback",
               Append(trace, "react_clarify_gate_async:fallback:react_error"),
               None)

\* required slots handed to the agent (_invoke_react_once, first statement)
ReactRequiredSlots(pr, override) ==
    IF override /= <<>> THEN override
    ELSE RequiredSlotsForIntent(pr.intent)

\* ClarifyResult (clarify_agent.py): the fields of the frozen dataclass, none
\* of which has a default
ClarifyResultFields ==
    {"decision", "clarify_question", "resolved_slots", "slot_updates",
     "resolved_intent", "route_target", "intent_evidence",
     "missing_required_slots", "trace", "messages"}

\* the keyword arguments _invoke_react_once passes to ClarifyResult
RebuiltClarifyResultFields ==
    {"decision", "clarify_question", "resolved_slots", "missing_required_slots",
     "trace", "messages"}

\* __init__ of a dataclass without defaults: TypeError unless exactly its
\* fields are given
DataclassInit(fields, given) == IF given = fields THEN "ok" ELSE "TypeError"

\* react_trace of _invoke_react_once: the agent's trace and the tool flags
ReactTrace(agent_trace, flags) ==
    agent_trace
    \o (IF flags.lookup_order = "hit"
        THEN <<"react_clarify_gate_async:tool_hit:lookup_order">>
        ELSE IF flags.lookup_order = "miss"
        THEN <<"react_clarify_gate_async:tool_miss:lookup_order">>
        ELSE <<>>)
    \o (IF flags.billing_rule = "hit"
        THEN <<"react_clarify_gate_async:tool_hit:query_billing_rules_by_params">>
        ELSE IF flags.billing_rule = "miss"
        THEN <<"react_clarify_gate_async:tool_miss:query_billing_rules_by_params">>
        ELSE <<>>)

\* _invoke_react_once after run_clarify_task returned `returned`
InvokedAgentReturned(returned, env) ==
    [clarify_result |->
         Some([decision |-> returned.decision,
               clarify_question |-> returned.clarify_question,
               resolved_slots |-> returned.resolved_slots,
               missing_required_slots |-> returned.missing_required_slots,
               trace |-> ReactTrace(returned.trace,
                                    CollectToolHitFlags(returned.messages)),
               messages |-> returned.messages]),
     fallback |-> None,
     agent |-> [kind |-> "returned", result |-> returned,
                final |-> env.final,
                rebuilt |-> DataclassInit(ClarifyResultFields,
                                          RebuiltClarifyResultFields)]]

\* _invoke_react_once: env is what the agent run does, [kind |-> "raise"] or
\* [kind |-> "ok", tool_results, final].  The result is [clarify_result,
\* fallback], each optional, and agent, the outcome of run_clarify_task as the
\* gate saw it together with the agent's last message (final); the ClarifyResult the
\* gate rebuilds carries the six members it copies (decision,
\* clarify_question, resolved_slots, missing_required_slots, trace, messages).
\* agent.rebuilt is what that constructor call does, outside the try; the
\* result goes on with the six members so that _normalize_react_result can
\* be followed.
InvokeReactOnce(pr, hr, mem, override, trace, env) ==
    IF env.kind = "raise"
    THEN [clarify_result |-> None, fallback |-> Some(FallbackResult(hr, trace)),
          agent |-> [kind |-> "raised"]]
    ELSE InvokedAgentReturned(
             RunClarifyTask(hr.payload, ReactRequiredSlots(pr, override), mem, env),
             env)

OrDefault(v, default) == IF Truthy(v) THEN v ELSE default

\* _normalize_react_result
NormalizeReactResult(pr, hr, trace, rr) ==
    LET merged_payload == [k \in DOMAIN hr.payload |->
                             IF k \in SlotKeySet THEN rr.resolved_slots[k]
                             ELSE hr.payload[k]]
        has_billing_rule_hit ==
            "react_clarify_gate_async:tool_hit:query_billing_rules_by_params"
                \in SeqToSet(rr.trace)
        has_lookup_order_hit ==
            "react_clarify_gate_async:tool_hit:lookup_order" \in SeqToSet(rr.trace)
    IN IF pr.intent = NULL
       THEN IF rr.decision = "continue_business" /\ has_billing_rule_hit
            THEN GateResult("continue_business",
                     [merged_payload EXCEPT !.intent_hint = "rule_explain"],
                     NULL, NULL,
                     trace \o rr.trace
                       \o <<"react_clarify_gate_async:infer_intent:rule_explain">>,
                     Some(rr.messages))
            ELSE IF rr.decision = "continue_business" /\ has_lookup_order_hit
            THEN GateResult("continue_business",
                     [merged_payload EXCEPT !.intent_hint = "arrears_check"],
                     NULL, NULL,
                     trace \o rr.trace
                       \o <<"react_clarify_gate_async:infer_intent:arrears_check">>,
                     Some(rr.messages))
            ELSE GateResult("clarify_react", merged_payload,
                     OrDefault(rr.clarify_question, "ask_intent"),
                     "missing_intent",
                     trace \o rr.trace \o <<"react_clarify_gate_async:pending_intent">>,
                     Some(rr.messages))
       ELSE IF rr.decision = "continue_business" /\ rr.missing_required_slots = <<>>
       THEN GateResult("continue_business", merged_payload, NULL, NULL,
                trace \o rr.trace \o <<"react_clarify_gate_async:continue_business">>,
                Some(rr.messages))
       ELSE IF rr.decision = "clarify_abort"
       THEN GateResult("clarify_abort", merged_payload,
                OrDefault(rr.clarify_question, "abort_retry"), "clarify_abort",
                trace \o rr.trace \o <<"react_clarify_gate_async:abort">>,
                Some(rr.messages))
       ELSE GateResult("clarify_react", merged_payload,
                OrDefault(rr.clarify_question, "ask_required"),
                "clarify_react_required",
                trace \o rr.trace \o <<"react_clarify_gate_async:clarify_react">>,
                Some(rr.messages))

\* the body of react_clarify_gate_async: enter is what _should_enter_react
\* returned, invoked what _invoke_react_once returns if it is reached
GateFrom(pr, hr, enter, invoked) ==
    LET short_circuit == ShortCircuitIfPossible(pr, hr, enter.trace)
        trace == Append(enter.trace, "react_clarify_gate_async:enter_react")
    IN IF ~enter.need_react
       THEN [result |-> GateResult("continue_business", hr.payload, NULL, NULL,
                                   IF enter.trace /= <<>> THEN enter.trace
                                   ELSE <<"react_clarify_gate_async:pass">>,
                                   None),
             agent |-> [kind |-> "none"]]
       ELSE IF short_circuit /= None
       THEN [result |-> short_circuit[1], agent |-> [kind |-> "none"]]
       ELSE IF invoked.fallback /= None
       THEN [result |-> invoked.fallback[1], agent |-> invoked.agent]
       ELSE [result |-> NormalizeReactResult(pr, hr, trace,
                                             invoked.clarify_result[1]),
             agent |-> invoked.agent]

\* react_clarify_gate_async; env is what the agent run does should the gate
\* call it.  Result: [result, agent], agent being the outcome of
\* run_clarify_task ([kind |-> "none"] when it was not called).
ReactClarifyGateAsync(pr, hr, mem, override, env) ==
    GateFrom(pr, hr, ShouldEnterReact(pr, hr),
             InvokeReactOnce(pr, hr, mem, override,
                             Append(ShouldEnterReact(pr, hr).trace,
                                    "react_clarify_gate_async:enter_react"),
                             env))

\* ------------------------------------------------ hybrid turn: operators
INTENT_CARRY_VALUES == {"rule_explain", "arrears_check", "fee_verify"}
FIRST_ORDER_REF_TOKENS == {"diyibi", "diyidan"}
FEE_VERIFY_QUERY_TOKENS == {"heyan", "yizhi", "suancuo", "jine", "fuhe", "budui"}
ROUTE_FEE_VERIFY_TOKENS == {"heyan", "yizhi", "suancuo", "jine", "dingdan"}
ROUTE_ARREARS_TOKENS == {"qianfei", "bujiao", "weijiao", "chepai"}

AnyTokenIn(tokens, q) == \E i \in 1..Len(q) : q[i] \in tokens

RuleRouteIntent(p) ==
    IF p.intent_hint \in VALID_INTENTS THEN p.intent_hint
    ELSE IF Truthy(p.order_no) \/ AnyTokenIn(ROUTE_FEE_VERIFY_TOKENS, p.query)
    THEN "fee_verify"
    ELSE IF Truthy(p.plate_no) \/ AnyTokenIn(ROUTE_ARREARS_TOKENS, p.query)
    THEN "arrears_check"
    ELSE "rule_explain"

WantsFirstOrderReference(q) == AnyTokenIn(FIRST_ORDER_REF_TOKENS, q)

LooksLikeFeeVerifyQuery(p) ==
    Truthy(p.order_no) \/ AnyTokenIn(FEE_VERIFY_QUERY_TOKENS, p.query)

\* _apply_memory_hydrate: [payload, traces, clarify]; clarify is NULL or the
\* clarification text
ApplyMemoryHydrate(p, mem) ==
    IF ~HasMemory(mem)
    THEN [payload |-> p, traces |-> <<"memory_hydrate:none">>, clarify |-> NULL]
    ELSE
      LET slots == mem.slots
          carried == SelectSeq(MEMORY_HYDRATE_KEYS,
                               LAMBDA k : p[k] = NULL /\ Truthy(slots[k]))
          traces1 == [i \in 1..Len(carried) |-> "memory_hydrate:" \o carried[i]]
          should_force_fee_verify ==
              LooksLikeFeeVerifyQuery(p) \/ WantsOrderReference(p.query)
          last_intent == Strip(mem.last_intent)
          hint_update ==
              IF p.intent_hint \in INTENT_CARRY_VALUES THEN NULL
              ELSE IF should_force_fee_verify THEN "fee_verify"
              ELSE IF last_intent \in INTENT_CARRY_VALUES THEN last_intent
              ELSE NULL
          traces2 ==
              IF p.intent_hint \in INTENT_CARRY_VALUES THEN <<>>
              ELSE IF should_force_fee_verify
              THEN <<"memory_hydrate:intent_hint_fee_verify">>
              ELSE IF last_intent \in INTENT_CARRY_VALUES
              THEN <<"memory_hydrate:intent_hint">>
              ELSE <<>>
          from_query == ExtractOrderNoFromQuery(p.query)
          candidates == SelectSeq(mem.order_candidates, LAMBDA x : x /= "")
          wants_ref == WantsOrderReference(p.query)
          wants_first == WantsFirstOrderReference(p.query)
          ambiguous ==
              /\ p.order_no = NULL /\ from_query = NULL /\ wants_ref
              /\ ~(Len(candidates) = 1 /\ ~wants_first)
              /\ (Len(candidates) > 1 \/ (wants_first /\ Len(candidates) >= 1))
          order_update ==
              IF p.order_no /= NULL THEN NULL
              ELSE IF from_query /= NULL THEN from_query
              ELSE IF wants_ref
              THEN (IF Len(candidates) = 1 /\ ~wants_first THEN candidates[1] ELSE NULL)
              ELSE IF Len(candidates) = 1
                      /\ (p.intent_hint = "fee_verify" \/ LooksLikeFeeVerifyQuery(p))
              THEN candidates[1]
              ELSE NULL
          traces3 ==
              IF p.order_no /= NULL THEN <<>>
              ELSE IF from_query /= NULL THEN <<"memory_hydrate:order_no_from_query">>
              ELSE IF wants_ref
              THEN (IF Len(candidates) = 1 /\ ~wants_first
                    THEN <<"memory_hydrate:order_no_from_reference">>
                    ELSE IF ambiguous
                    THEN <<"memory_hydrate:order_reference_ambiguous">>
                    ELSE <<>>)
              ELSE IF order_update /= NULL
              THEN <<"memory_hydrate:order_no_from_single_candidate">>
              ELSE <<>>
          hint_final ==
              IF ambiguous /\ hint_update = NULL
                 /\ p.intent_hint \notin INTENT_CARRY_VALUES
              THEN "fee_verify" ELSE hint_update
          hydrated ==
              [k \in DOMAIN p |->
                  IF k \in SeqToSet(carried) THEN slots[k]
                  ELSE IF k = "intent_hint" /\ hint_final /= NULL THEN hint_final
                  ELSE IF k = "order_no" /\ order_update /= NULL THEN order_update
                  ELSE p[k]]
          traces == traces1 \o traces2 \o traces3
      IN [payload |-> hydrated,
          traces |-> IF traces = <<>> THEN <<"memory_hydrate:hit">> ELSE traces,
          clarify |-> IF ambiguous THEN "order_reference_clarify" ELSE NULL]

\* business_facts: a dict; a key that is absent holds NULL (FALSE, <<>>, None)
NoFacts ==
    [intent |-> NULL, error |-> NULL, note |-> NULL, order_no |-> NULL,
     plate_no |-> NULL, city_code |-> NULL, rule_code |-> NULL,
     arrears_listed |-> FALSE, arrears_order_nos |-> <<>>,
     order_candidates |-> <<>>, order_total_amount |-> None,
     sim_total_amount |-> None, amount_check_result |-> NULL,
     amount_check_action |-> NULL, attempted_tools |-> <<>>,
     order |-> None, simulation |-> None]

\* _normalize_decimal_str: Decimal.quantize(Decimal("0.01")), which rounds
\* half to even.  An amount is a number of thousandths, the result a number
\* of hundredths.
NormalizeDecimalStr(mills) ==
    LET q == mills \div 10
        r == mills % 10
    IN IF r > 5 \/ (r = 5 /\ q % 2 = 1) THEN q + 1 ELSE q

\* build_arrears_facts; api is the outcome of GET /api/v1/arrears-orders:
\* [kind |-> "http_error" | "request_error" | "ok", rows]; rows holds the
\* order_no of each row
BuildArrearsFacts(p, api) ==
    LET base == [NoFacts EXCEPT !.intent = "arrears_check",
                                !.plate_no = p.plate_no,
                                !.city_code = p.city_code,
                                !.attempted_tools = <<"GET /api/v1/arrears-orders">>]
    IN IF api.kind = "http_error"
       THEN [base EXCEPT !.error = "arrears_tool_http_error"]
       ELSE IF api.kind = "request_error"
       THEN [base EXCEPT !.error = "arrears_tool_request_error"]
       ELSE [base EXCEPT !.arrears_listed = TRUE,
                         !.arrears_order_nos = api.rows]

\* build_fee_verify_facts; api is what the business API does:
\*   api.order: [kind |-> "not_found" | "http_error" | "request_error" | "ok",
\*               entry_time, exit_time, total_amount]
\*   api.sim:   [kind |-> "http_error" | "request_error" | "ok", total_amount]
\* entry_time and exit_time are "ok", "bad" (not ISO) or NULL; the request's
\* own rule_code, entry_time and exit_time are absent.
\* Result: [facts, calls], calls being the API requests made, in order.
\* The facts' order and simulation hold the total_amount of the API's answer;
\* amount_check_result "consistent" / "inconsistent" stands for 一致 / 不一致,
\* amount_check_action "auto_pass" / "manual_review" for 自动通过 / 需人工复核.
BuildFeeVerifyFacts(p, api) ==
    LET get_order == "GET /api/v1/parking-orders/{order_no}"
        simulate == "POST /api/v1/billing-rules/simulate"
        base == [NoFacts EXCEPT !.intent = "fee_verify",
                                !.attempted_tools = <<get_order>>]
        with_order == [base EXCEPT !.order_no = p.order_no]
        timed == [with_order EXCEPT !.rule_code = "rule"]
        order_total == NormalizeDecimalStr(api.order.total_amount)
        sim_total == NormalizeDecimalStr(api.sim.total_amount)
    IN IF ~Truthy(p.order_no)
       THEN [facts |-> [base EXCEPT !.error = "order_no is required for fee_verify",
                                    !.attempted_tools = <<>>],
             calls |-> <<>>]
       ELSE IF api.order.kind = "not_found"
       THEN [facts |-> [with_order EXCEPT !.error = "order_not_found"],
             calls |-> <<get_order>>]
       ELSE IF api.order.kind = "http_error"
       THEN [facts |-> [with_order EXCEPT !.error = "order_tool_http_error"],
             calls |-> <<get_order>>]
       ELSE IF api.order.kind = "request_error"
       THEN [facts |-> [with_order EXCEPT !.error = "order_tool_request_error"],
             calls |-> <<get_order>>]
       ELSE IF api.order.entry_time /= "ok"
       THEN [facts |-> [base EXCEPT !.error = "entry_time is invalid for fee_verify"],
             calls |-> <<get_order>>]
       ELSE IF api.order.exit_time = NULL
       THEN [facts |-> [base EXCEPT !.error = "exit_time is required for fee_verify"],
             calls |-> <<get_order>>]
       ELSE IF api.order.exit_time /= "ok"
       THEN [facts |-> [base EXCEPT !.error = "exit_time is invalid for fee_verify"],
             calls |-> <<get_order>>]
       ELSE IF api.sim.kind = "http_error"
       THEN [facts |-> [timed EXCEPT !.error = "simulate_tool_http_error",
                                    !.order = Some(api.order.total_amount)],
             calls |-> <<get_order, simulate>>]
       ELSE IF api.sim.kind = "request_error"
       THEN [facts |-> [timed EXCEPT !.error = "simulate_tool_request_error",
                                    !.order = Some(api.order.total_amount)],
             calls |-> <<get_order, simulate>>]
       ELSE [facts |-> [timed EXCEPT
                          !.order_total_amount = Some(order_total),
                          !.sim_total_amount = Some(sim_total),
                          !.order = Some(api.order.total_amount),
                          !.simulation = Some(api.sim.total_amount),
                          !.amount_check_result =
                              IF order_total = sim_total THEN "consistent"
                              ELSE "inconsistent",
                          !.amount_check_action =
                              IF order_total = sim_total THEN "auto_pass"
                              ELSE "manual_review",
                          !.attempted_tools = <<get_order, simulate>>],
             calls |-> <<get_order, simulate>>]

\* settings.memory_max_clarify_messages
MEMORY_MAX_CLARIFY_MESSAGES == 6

\* settings.memory_max_turns
MEMORY_MAX_TURNS == 2

\* a truncation that keeps the oldest entries
LastNKeepsOldest(xs, n) == IF Len(xs) > n THEN SubSeq(xs, 1, n) ELSE xs

LastN(xs, n) == IF Len(xs) > n THEN SubSeq(xs, Len(xs) - n + 1, Len(xs)) ELSE xs

\* the state _persist_session_memory hands to save_session
PersistedState(p, result, previous_state) ==
    LET old_slots == IF HasMemory(previous_state) THEN previous_state.slots
                     ELSE [k \in SlotKeySet |-> NULL]
        facts == result.business_facts
        slots1 == [k \in SlotKeySet |-> IF p[k] /= NULL THEN p[k] ELSE old_slots[k]]
        slots == [k \in SlotKeySet |->
                     IF k \in {"order_no", "plate_no", "city_code"} /\ Truthy(facts[k])
                     THEN facts[k] ELSE slots1[k]]
        old_candidates ==
            IF HasMemory(previous_state)
            THEN SelectSeq(previous_state.order_candidates, LAMBDA x : x /= "")
            ELSE <<>>
        order_candidates ==
            IF facts.arrears_listed
            THEN SelectSeq(facts.arrears_order_nos, LAMBDA x : x /= "")
            ELSE IF Truthy(facts.order_no) THEN <<facts.order_no>>
            ELSE old_candidates
        old_turns == IF HasMemory(previous_state) THEN previous_state.turns ELSE <<>>
        turns == Append(old_turns,
                        [query |-> p.query, intent |-> result.intent,
                         order_no |-> slots["order_no"]])
    IN [slots |-> slots,
        last_intent |-> result.intent,
        order_candidates |-> order_candidates,
        turns |-> LastN(turns, MEMORY_MAX_TURNS)]

\* a repository whose get_session does not look at expires_at
GetSessionIgnoresExpiry(st, session_id) ==
    IF st[session_id] = None THEN NoMemory ELSE st[session_id][1].state

\* a repository that keeps a single entry for every session
GetSessionShared(st, session_id) ==
    IF st["A"] = None THEN NoMemory
    ELSE IF st["A"][1].expired THEN NoMemory
    ELSE st["A"][1].state

\* InMemorySessionMemoryRepo: _store[session_id] is None or
\* Some([expired, state]); expired says that expires_at <= time.time()
GetSession(st, session_id) ==
    IF st[session_id] = None THEN NoMemory
    ELSE IF st[session_id][1].expired THEN NoMemory
    ELSE st[session_id][1].state

\* what get_session leaves in _store: an expired entry is popped
StoreAfterGet(st, session_id) ==
    IF st[session_id] /= None /\ st[session_id][1].expired
    THEN [st EXCEPT ![session_id] = None]
    ELSE st

\* save_session: the entry's expiry lies max(ttl, 1) seconds ahead
SaveSession(st, session_id, state) ==
    [st EXCEPT ![session_id] = Some([expired |-> FALSE, state |-> state])]

\* a persist that merges into the state stored at the time of the write
PersistSessionMemoryMerging(st, p, result, previous_state) ==
    IF p.session_id = NULL \/ p.session_id = "" THEN st
    ELSE SaveSession(st, p.session_id,
                     PersistedState(p, result, GetSession(st, p.session_id)))

\* _persist_session_memory on the store
PersistSessionMemory(st, p, result, previous_state) ==
    IF p.session_id = NULL \/ p.session_id = "" THEN st
    ELSE SaveSession(st, p.session_id, PersistedState(p, result, previous_state))

\* ------------------------------------------------ input domains
Hints == {NULL, "fee_verify", "arrears_check", "rule_explain", "chitchat", " fee_verify"}
ResolverQueries == {<<>>, <<"zhebi">>, <<"scn-1", "SCN-2">>}

Request(session_id, hint, query, plate_no, order_no) ==
    [session_id |-> session_id, intent_hint |-> hint, query |-> query,
     city_code |-> NULL, lot_code |-> NULL, plate_no |-> plate_no,
     order_no |-> order_no, at_time |-> NULL]

ResolverRequests ==
    {Request(NULL, h, q, pl, o) :
        h \in Hints, q \in ResolverQueries, pl \in {NULL, "P1"}, o \in {NULL, "SCN-7"}}

Slots(city_code, plate_no, order_no) ==
    [k \in SlotKeySet |->
        IF k = "city_code" THEN city_code
        ELSE IF k = "plate_no" THEN plate_no
        ELSE IF k = "order_no" THEN order_no
        ELSE NULL]

ResolverMemories ==
    {NoMemory,
     [slots |-> Slots("C9", NULL, NULL)],
     [slots |-> Slots("C9", "P9", "SCN-9"),
      clarify_messages |-> <<UserMsg, AiMsg,
                             ToolMsg("query_billing_rules_by_params", "hit"),
                             AiMsg>>]}

Overrides == {<<>>, <<"order_no">>}

LlmSlots(order_no) ==
    [k \in LLM_SLOT_KEYS |-> IF k = "order_no" THEN order_no ELSE NULL]

LlmOutcomes ==
    {[kind |-> k, intent |-> NULL, intent_confidence |-> NULL,
      slots |-> LlmSlots(NULL), ambiguities |-> <<>>] :
        k \in {"error", "invalid_json"}}
    \cup
    {[kind |-> "json", intent |-> i, intent_confidence |-> "0.9",
      slots |-> LlmSlots(o), ambiguities |-> <<>>] :
        i \in {"unknown", "fee_verify", "arrears_check"}, o \in {NULL, "SCN-3"}}

ToolResults ==
    {[tool |-> t, hit |-> h] :
        t \in {"lookup_order", "query_billing_rules_by_params"},
        h \in {"hit", "miss"}}

RECURSIVE SeqsUpTo(_, _)
SeqsUpTo(S, n) ==
    IF n = 0 THEN {<<>>}
    ELSE LET shorter == SeqsUpTo(S, n - 1)
         IN shorter \cup {Append(q, x) : q \in shorter, x \in S}

IntentPairs ==
    {<<NULL, NULL>>, <<"arrears_check", NULL>>, <<"arrears_check", "arrears_check">>,
     <<"arrears_check", "rule_explain">>, <<"fee_verify", "fee_verify">>}

SlotUpdates(order_no) ==
    [k \in SlotKeySet |-> IF k = "order_no" THEN order_no ELSE NULL]

AgentFinals ==
    {[kind |-> "text", action |-> NULL, slot_updates |-> SlotUpdates(NULL),
      resolved_intent |-> NULL, route_target |-> NULL,
      clarify_question |-> NULL, intent_evidence |-> <<>>]}
    \cup
    {[kind |-> "json", action |-> a, slot_updates |-> SlotUpdates(o),
      resolved_intent |-> ip[1], route_target |-> ip[2],
      clarify_question |-> NULL, intent_evidence |-> <<>>] :
        a \in {"ask_user", "finish_clarify", "abort"},
        o \in {NULL, "SCN-5"}, ip \in IntentPairs}

AgentEnvs ==
    {[kind |-> "raise", tool_results |-> <<>>, final |-> CHOOSE f \in AgentFinals : f.kind = "text"]}
    \cup
    {[kind |-> "ok", tool_results |-> ts, final |-> f] :
        ts \in SeqsUpTo(ToolResults, MaxToolCalls), f \in AgentFinals}

\* ------------------------------------------------ resolver turn: actions
NoAgent == [kind |-> "none"]

ResolverIdle ==
    /\ pc = "idle" /\ payload = NULL /\ memory_state = NoMemory
    /\ required_slots_override = <<>> /\ parse_result = NULL
    /\ hydrate_result = NULL /\ react_calls = 0 /\ react_result = NoAgent
    /\ gate_result = NULL

\* a request reaches resolve_turn_context_async (or debug_clarify_react, which
\* alone may pass required_slots)
ReceiveRequest ==
    /\ pc = "idle"
    /\ \E p \in ResolverRequests, m \in ResolverMemories, o \in Overrides :
         /\ payload' = p
         /\ memory_state' = m
         /\ required_slots_override' = o
    /\ pc' = "parse"
    /\ UNCHANGED <<parse_result, hydrate_result, react_calls, react_result, gate_result>>
    /\ UNCHANGED <<hvars, ovars, xvars>>

IntentSlotParseStep ==
    /\ pc = "parse"
    /\ \E llm \in LlmOutcomes : parse_result' = IntentSlotParse(payload, llm)
    /\ pc' = "hydrate"
    /\ UNCHANGED <<payload, memory_state, required_slots_override, hydrate_result,
                   react_calls, react_result, gate_result>>
    /\ UNCHANGED <<hvars, ovars, xvars>>

SlotHydrateStep ==
    /\ pc = "hydrate"
    /\ hydrate_result' = SlotHydrate(parse_result, parse_result.payload, memory_state)
    /\ pc' = "gate"
    /\ UNCHANGED <<payload, memory_state, required_slots_override, parse_result,
                   react_calls, react_result, gate_result>>
    /\ UNCHANGED <<hvars, ovars, xvars>>

ReactClarifyGateStep ==
    /\ pc = "gate"
    /\ \E env \in AgentEnvs :
         \E g \in {ReactClarifyGateAsync(parse_result, hydrate_result, memory_state,
                                         required_slots_override, env)} :
            /\ gate_result' = g.result
            /\ react_result' = g.agent
            /\ react_calls' = IF g.agent.kind = "none" THEN react_calls
                              ELSE react_calls + 1
    /\ pc' = "done"
    /\ UNCHANGED <<payload, memory_state, required_slots_override, parse_result,
                   hydrate_result>>
    /\ UNCHANGED <<hvars, ovars, xvars>>

ResolverReturn ==
    /\ pc = "done"
    /\ pc' = "idle"
    /\ payload' = NULL /\ memory_state' = NoMemory
    /\ required_slots_override' = <<>> /\ parse_result' = NULL
    /\ hydrate_result' = NULL /\ react_calls' = 0 /\ react_result' = NoAgent
    /\ gate_result' = NULL
    /\ UNCHANGED <<hvars, ovars, xvars>>

\* ------------------------------------------------ hybrid turn: inputs
Sessions == {"A", "B"}
HybridHints == {NULL, "arrears_check", "fee_verify"}
HybridQueries == {<<>>, <<"zhebi">>, <<"diyibi">>}

\* order_no is never given in the request: it reaches a turn from memory
HybridRequests ==
    {Request(sid, h, q, pl, NULL) :
        sid \in Sessions \cup {NULL}, h \in HybridHints, q \in HybridQueries,
        pl \in {NULL, "P1"}}

\* outcome of _classify_intent's LLM call; no_key: no API key is configured
ClassifyOutcomes ==
    {[kind |-> k, intent |-> NULL] : k \in {"no_key", "llm_error"}}
    \cup {[kind |-> "llm", intent |-> i] : i \in {"fee_verify", "arrears_check", "other"}}

ArrearsApiOutcomes ==
    {[kind |-> k, rows |-> <<>>] : k \in {"http_error", "request_error"}}
    \cup {[kind |-> "ok", rows |-> r] : r \in {<<>>, <<"SCN-1">>, <<"SCN-1", "SCN-2">>}}

\* amounts, in thousandths
OrderAmounts == {10500}
SimAmounts == {10500, 10505, 11000}

OrderAmount == CHOOSE a \in OrderAmounts : TRUE

OrderApiOutcomes ==
    {[kind |-> k, entry_time |-> NULL, exit_time |-> NULL, total_amount |-> OrderAmount] :
        k \in {"not_found", "http_error", "request_error"}}
    \cup {[kind |-> "ok", entry_time |-> e, exit_time |-> x, total_amount |-> OrderAmount] :
            e \in {"ok", "bad"}, x \in {NULL, "ok", "bad"}}

SimApiOutcomes ==
    {[kind |-> k, total_amount |-> OrderAmount] : k \in {"http_error", "request_error"}}
    \cup {[kind |-> "ok", total_amount |-> a] : a \in SimAmounts}

\* ------------------------------------------------ hybrid turn: actions
NoResult ==
    [intent |-> NULL, retrieved_count |-> 0, business_facts |-> NoFacts,
     conclusion |-> NULL, model |-> NULL, memory_trace |-> <<>>, trace |-> <<>>]

HybridIdle ==
    /\ store = [s \in Sessions |-> None]
    /\ hpc = "idle" /\ hreq = NULL /\ hpayload = NULL /\ hmem = NoMemory
    /\ hresult = NoResult /\ calls = <<>> /\ turns_done = 0

\* POST /api/v1/answer/hybrid receives a request
HybridReceive ==
    /\ hpc = "idle"
    /\ turns_done < MaxTurns
    /\ \E r \in HybridRequests : hreq' = r /\ hpayload' = r
    /\ hpc' = "memory"
    /\ UNCHANGED <<store, hmem, hresult, calls, turns_done>>
    /\ UNCHANGED <<rvars, ovars, xvars>>

SessionRead == Truthy(hreq.session_id)
HydrateNow == ApplyMemoryHydrate(hreq, GetSession(store, hreq.session_id))

\* run_hybrid_answering, lines 235-239 with no clarification
HybridMemoryHydrate ==
    /\ hpc = "memory"
    /\ IF SessionRead
       THEN /\ HydrateNow.clarify = NULL
            /\ hmem' = GetSession(store, hreq.session_id)
            /\ store' = StoreAfterGet(store, hreq.session_id)
            /\ hpayload' = HydrateNow.payload
            /\ hresult' = [hresult EXCEPT !.memory_trace = HydrateNow.traces]
       ELSE UNCHANGED <<hmem, store, hpayload, hresult>>
    /\ hpc' = "classify"
    /\ UNCHANGED <<hreq, calls, turns_done>>
    /\ UNCHANGED <<rvars, ovars, xvars>>

\* run_hybrid_answering, lines 240-255: the order reference is ambiguous
HybridMemoryClarify ==
    /\ hpc = "memory"
    /\ SessionRead
    /\ HydrateNow.clarify /= NULL
    /\ LET mem == GetSession(store, hreq.session_id)
           p == HydrateNow.payload
           intent == IF Truthy(p.intent_hint) THEN p.intent_hint ELSE "fee_verify"
           result == [NoResult EXCEPT
                        !.intent = intent,
                        !.business_facts =
                            [NoFacts EXCEPT !.intent = intent,
                                            !.error = "order_reference_ambiguous",
                                            !.order_candidates = mem.order_candidates],
                        !.conclusion = HydrateNow.clarify,
                        !.model = "",
                        !.memory_trace = HydrateNow.traces,
                        !.trace = Append(HydrateNow.traces,
                                         "answer_synthesizer:memory_clarify")]
       IN /\ hmem' = mem
          /\ hpayload' = p
          /\ hresult' = result
          /\ store' = PersistSessionMemory(StoreAfterGet(store, hreq.session_id),
                                           p, result, mem)
    /\ hpc' = "done"
    /\ UNCHANGED <<hreq, calls, turns_done>>
    /\ UNCHANGED <<rvars, ovars, xvars>>

\* _classify_intent
ClassifyIntent(p, c) ==
    IF p.intent_hint \in VALID_INTENTS THEN p.intent_hint
    ELSE IF c.kind = "llm" /\ c.intent \in VALID_INTENTS THEN c.intent
    ELSE RuleRouteIntent(p)

\* _route_from_intent
RouteFromIntent(intent) ==
    IF intent = "arrears_check" THEN "arrears_check_flow"
    ELSE IF intent = "fee_verify" THEN "fee_verify_flow"
    ELSE "rule_explain_flow"

\* node intent_classifier and the conditional edge after it
HybridClassify ==
    /\ hpc = "classify"
    /\ \E c \in ClassifyOutcomes :
         LET intent == ClassifyIntent(hpayload, c)
             asked == hpayload.intent_hint \notin VALID_INTENTS /\ c.kind /= "no_key"
         IN /\ hresult' = [hresult EXCEPT
                             !.intent = intent,
                             !.trace = Append(@, "intent_classifier:" \o intent)]
            /\ calls' = IF asked THEN Append(calls, "llm:intent") ELSE calls
            /\ hpc' = RouteFromIntent(intent)
    /\ UNCHANGED <<store, hreq, hpayload, hmem, turns_done>>
    /\ UNCHANGED <<rvars, ovars, xvars>>

HybridRuleExplainFlow ==
    /\ hpc = "rule_explain_flow"
    /\ hresult' = [hresult EXCEPT
                     !.business_facts = [NoFacts EXCEPT
                                           !.intent = "rule_explain",
                                           !.note = "RAG-only explanation flow"],
                     !.trace = Append(@, "rule_explain_flow")]
    /\ hpc' = "rag_retrieve"
    /\ UNCHANGED <<store, hreq, hpayload, hmem, calls, turns_done>>
    /\ UNCHANGED <<rvars, ovars, xvars>>

HybridArrearsCheckFlow ==
    /\ hpc = "arrears_check_flow"
    /\ \E api \in ArrearsApiOutcomes :
         hresult' = [hresult EXCEPT
                       !.business_facts = BuildArrearsFacts(hpayload, api),
                       !.trace = Append(@, "arrears_check_flow")]
    /\ calls' = Append(calls, "GET /api/v1/arrears-orders")
    /\ hpc' = "answer_synthesizer"
    /\ UNCHANGED <<store, hreq, hpayload, hmem, turns_done>>
    /\ UNCHANGED <<rvars, ovars, xvars>>

\* a fee_verify flow that goes to the synthesizer when the tool found an error
HybridFeeVerifyFlowSkipsRetrieve ==
    /\ hpc = "fee_verify_flow"
    /\ \E o \in OrderApiOutcomes, sim \in SimApiOutcomes :
         LET built == BuildFeeVerifyFacts(hpayload, [order |-> o, sim |-> sim])
         IN /\ hresult' = [hresult EXCEPT
                             !.business_facts = built.facts,
                             !.trace = Append(@, "fee_verify_flow")]
            /\ calls' = calls \o built.calls
            /\ hpc' = IF built.facts.error /= NULL THEN "answer_synthesizer"
                      ELSE "rag_retrieve"
    /\ UNCHANGED <<store, hreq, hpayload, hmem, turns_done>>
    /\ UNCHANGED <<rvars, ovars, xvars>>

HybridFeeVerifyFlow ==
    /\ hpc = "fee_verify_flow"
    /\ \E o \in OrderApiOutcomes, sim \in SimApiOutcomes :
         LET built == BuildFeeVerifyFacts(hpayload, [order |-> o, sim |-> sim])
         IN /\ hresult' = [hresult EXCEPT
                             !.business_facts = built.facts,
                             !.trace = Append(@, "fee_verify_flow")]
            /\ calls' = calls \o built.calls
    /\ hpc' = "rag_retrieve"
    /\ UNCHANGED <<store, hreq, hpayload, hmem, turns_done>>
    /\ UNCHANGED <<rvars, ovars, xvars>>

\* node fee_verify_flow with the client run_hybrid_answering builds:
\* clients.biz_api_client.BizApiClient has get_arrears_orders, get_billing_rules
\* and get_parking_order only (simulate_billing is defined after the return of
\* get_biz_client, outside the class), so once the order and its times are
\* read the expression self.biz_client.simulate_billing raises AttributeError,
\* which build_fee_verify_facts does not catch: the turn ends as an exception
HybridFeeVerifyFlowRaises ==
    /\ hpc = "fee_verify_flow"
    /\ Truthy(hpayload.order_no)
    /\ \E o \in OrderApiOutcomes :
         /\ o.kind = "ok" /\ o.entry_time = "ok" /\ o.exit_time = "ok"
         /\ calls' = Append(calls, "GET /api/v1/parking-orders/{order_no}")
    /\ hpc' = "failed"
    /\ UNCHANGED <<store, hreq, hpayload, hmem, hresult, turns_done>>
    /\ UNCHANGED <<rvars, ovars, xvars>>

\* node rag_retrieve; the repository returns n items
HybridRagRetrieve ==
    /\ hpc = "rag_retrieve"
    /\ \E n \in {0, 1} :
         hresult' = [hresult EXCEPT
                       !.retrieved_count = n,
                       !.trace = Append(@, "rag_retrieve:" \o ToString(n))]
    /\ calls' = Append(calls, "retrieve")
    /\ hpc' = "answer_synthesizer"
    /\ UNCHANGED <<store, hreq, hpayload, hmem, turns_done>>
    /\ UNCHANGED <<rvars, ovars, xvars>>

\* node rag_retrieve when repo.retrieve raises ValueError: the route answers 503
HybridRagRetrieveFails ==
    /\ hpc = "rag_retrieve"
    /\ calls' = Append(calls, "retrieve")
    /\ hpc' = "failed"
    /\ UNCHANGED <<store, hreq, hpayload, hmem, hresult, turns_done>>
    /\ UNCHANGED <<rvars, ovars, xvars>>

\* node answer_synthesizer, then run_hybrid_answering lines 303-306
HybridSynthesize ==
    /\ hpc = "answer_synthesizer"
    /\ LET no_data == hresult.retrieved_count = 0 /\ hresult.business_facts = NoFacts
           synthesized ==
               [hresult EXCEPT
                  !.conclusion = IF no_data THEN "no_evidence" ELSE "answer",
                  !.model = IF no_data THEN "" ELSE "deepseek",
                  !.trace = Append(@, IF no_data THEN "answer_synthesizer:no_data"
                                      ELSE "answer_synthesizer")]
           result == IF Truthy(hpayload.session_id)
                     THEN [synthesized EXCEPT
                             !.trace = hresult.memory_trace \o @ \o <<"memory_persist">>]
                     ELSE synthesized
       IN /\ hresult' = result
          /\ calls' = IF no_data THEN calls ELSE Append(calls, "llm:answer")
          /\ store' = PersistSessionMemory(store, hpayload, result, hmem)
    /\ hpc' = "done"
    /\ UNCHANGED <<hreq, hpayload, hmem, turns_done>>
    /\ UNCHANGED <<rvars, ovars, xvars>>

\* generate_hybrid_answer raises (no API key, LLM failure): nothing is persisted
HybridSynthesizeFails ==
    /\ hpc = "answer_synthesizer"
    /\ calls' = Append(calls, "llm:answer")
    /\ hpc' = "failed"
    /\ UNCHANGED <<store, hreq, hpayload, hmem, hresult, turns_done>>
    /\ UNCHANGED <<rvars, ovars, xvars>>

\* node answer_synthesizer succeeds and repo.save_session raises: the await of
\* _persist_session_memory (lines 303-306) is not guarded, so the exception
\* leaves run_hybrid_answering with the result built but not returned
HybridPersistFails ==
    /\ hpc = "answer_synthesizer"
    /\ Truthy(hpayload.session_id)
    /\ LET no_data == hresult.retrieved_count = 0 /\ hresult.business_facts = NoFacts
       IN /\ hresult' =
               [hresult EXCEPT
                  !.conclusion = IF no_data THEN "no_evidence" ELSE "answer",
                  !.model = IF no_data THEN "" ELSE "deepseek",
                  !.trace = hresult.memory_trace
                            \o Append(@, IF no_data THEN "answer_synthesizer:no_data"
                                         ELSE "answer_synthesizer")
                            \o <<"memory_persist">>]
          /\ calls' = IF no_data THEN calls ELSE Append(calls, "llm:answer")
    /\ hpc' = "failed"
    /\ UNCHANGED <<store, hreq, hpayload, hmem, turns_done>>
    /\ UNCHANGED <<rvars, ovars, xvars>>

\* the positions at which a turn awaits: the memory read, the classifier's
\* LLM call, a flow's business API calls, the retrieval, the answer's LLM call
SuspensionPoints ==
    {"memory", "classify", "rule_explain_flow", "arrears_check_flow",
     "fee_verify_flow", "rag_retrieve", "answer_synthesizer"}

\* a cancellation whose handler persists what the turn has so far
HybridCancelPersists ==
    /\ hpc \in SuspensionPoints
    /\ hpc' = "cancelled"
    /\ hpayload' = hreq
    /\ hresult' = NoResult
    /\ store' = PersistSessionMemory(store, hpayload, hresult, hmem)
    /\ UNCHANGED <<hreq, hmem, calls, turns_done>>
    /\ UNCHANGED <<rvars, ovars, xvars>>

\* the request's task is cancelled (the client disconnects, the server shuts
\* down) while the turn awaits: CancelledError unwinds run_hybrid_answering,
\* which has no except or finally clause
HybridCancel ==
    /\ hpc \in SuspensionPoints
    /\ hpc' = "cancelled"
    /\ hpayload' = hreq
    /\ hresult' = NoResult
    /\ UNCHANGED <<store, hreq, hmem, calls, turns_done>>
    /\ UNCHANGED <<rvars, ovars, xvars>>

\* the response is sent, or the cancelled request's task ends
HybridRespond ==
    /\ hpc \in {"done", "failed", "cancelled"}
    /\ hpc' = "idle"
    /\ hreq' = NULL /\ hpayload' = NULL /\ hmem' = NoMemory
    /\ hresult' = NoResult /\ calls' = <<>>
    /\ turns_done' = turns_done + 1
    /\ UNCHANGED store
    /\ UNCHANGED <<rvars, ovars, xvars>>

\* time passes an entry's expires_at
SessionExpires ==
    /\ hpc = "idle"
    /\ \E s \in Sessions :
         /\ store[s] /= None
         /\ ~store[s][1].expired
         /\ store' = [store EXCEPT ![s] = Some([store[s][1] EXCEPT !.expired = TRUE])]
    /\ UNCHANGED <<hpc, hreq, hpayload, hmem, hresult, calls, turns_done>>
    /\ UNCHANGED <<rvars, ovars, xvars>>

\* ------------------------------------------------ debug route
\* POST /debug/clarify-react: the resolver steps on the session's memory
DebugSessions == Sessions \cup {NULL}

DebugRequests ==
    {Request(sid, h, <<>>, NULL, o) :
        sid \in DebugSessions, h \in {NULL, "fee_verify"}, o \in {NULL, "SCN-7"}}

\* debug_clarify_react's result, from the gate's result
DebugResult(pr, gate, required_slots) ==
    LET wanted == IF required_slots /= <<>> THEN required_slots
                  ELSE RequiredSlotsForIntent(pr.intent)
    IN [decision |-> gate.decision,
        clarify_error |-> gate.clarify_error,
        resolved_slots |-> [k \in SlotKeySet |-> gate.payload[k]],
        missing_required_slots |->
            SelectSeq(wanted, LAMBDA slot : gate.payload[slot] = NULL),
        messages |-> IF gate.clarify_messages = None THEN <<>>
                     ELSE gate.clarify_messages[1]]

\* a route that stores the turn's slots as they are, None included
DebugStateOverwrites(old, dr) ==
    [k \in DOMAIN old \cup {"slots", "clarify_messages", "pending_clarification",
                            "resolved_slots"} |->
        IF k = "slots" THEN dr.resolved_slots
        ELSE IF k = "clarify_messages" THEN dr.messages
        ELSE IF k = "pending_clarification"
        THEN [decision |-> dr.decision, error |-> dr.clarify_error,
              missing_required_slots |-> dr.missing_required_slots]
        ELSE IF k = "resolved_slots"
        THEN [s \in {x \in SlotKeySet : dr.resolved_slots[x] /= NULL} |->
                 dr.resolved_slots[s]]
        ELSE old[k]]

\* new_state of debug_clarify_react_route: the old state with four keys set
DebugState(old, dr) ==
    LET old_slots == MemGet(old, "slots", [k \in SlotKeySet |-> NULL])
        given == {k \in SlotKeySet : dr.resolved_slots[k] /= NULL}
        slots == [k \in SlotKeySet |->
                     IF k \in given THEN dr.resolved_slots[k] ELSE old_slots[k]]
        pending == [decision |-> dr.decision, error |-> dr.clarify_error,
                    missing_required_slots |-> dr.missing_required_slots]
        written == {"slots", "clarify_messages", "pending_clarification",
                    "resolved_slots"}
    IN [k \in DOMAIN old \cup written |->
           IF k = "slots" THEN slots
           ELSE IF k = "clarify_messages" THEN dr.messages
           ELSE IF k = "pending_clarification" THEN pending
           ELSE IF k = "resolved_slots" THEN [s \in given |-> dr.resolved_slots[s]]
           ELSE old[k]]

\* the route reads the session's memory and builds the request
DebugReceive ==
    /\ pc = "idle"
    /\ hpc = "idle"
    /\ turns_done < MaxTurns
    /\ \E p \in DebugRequests, o \in Overrides :
         /\ payload' = p
         /\ required_slots_override' = o
         /\ IF Truthy(p.session_id)
            THEN /\ memory_state' = GetSession(store, p.session_id)
                 /\ store' = StoreAfterGet(store, p.session_id)
            ELSE memory_state' = NoMemory /\ UNCHANGED store
    /\ pc' = "parse"
    /\ UNCHANGED <<parse_result, hydrate_result, react_calls, react_result, gate_result>>
    /\ UNCHANGED <<hpc, hreq, hpayload, hmem, hresult, calls, turns_done, ovars, xvars>>

\* what the debug route's model calls do: the parse LLM fails, finds no
\* intent or finds fee_verify; the agent raises, answers in plain text, asks
\* the user, or finishes with an order_no, after one tool call or none
DebugLlmOutcomes ==
    {llm \in LlmOutcomes :
        /\ llm.kind \in {"error", "json"}
        /\ llm.intent \in {NULL, "unknown", "fee_verify"}
        /\ llm.slots["order_no"] = NULL}

DebugAgentEnvs ==
    {env \in AgentEnvs :
        /\ env.tool_results \in {<<>>, <<[tool |-> "lookup_order", hit |-> "hit"]>>}
        /\ env.final.resolved_intent = NULL
        /\ \/ env.final.kind = "text"
           \/ env.final.action = "ask_user" /\ env.final.slot_updates["order_no"] = NULL
           \/ env.final.action = "finish_clarify"
              /\ env.final.slot_updates["order_no"] /= NULL}

\* debug_clarify_react: parse, hydrate and gate on the memory just read
DebugClarifyReact ==
    /\ pc = "parse"
    /\ hpc = "idle"
    /\ \E llm \in DebugLlmOutcomes, env \in DebugAgentEnvs :
         \E pr \in {IntentSlotParse(payload, llm)} :
         \E hr \in {SlotHydrate(pr, pr.payload, memory_state)} :
         \E g \in {ReactClarifyGateAsync(pr, hr, memory_state,
                                         required_slots_override, env)} :
            /\ parse_result' = pr
            /\ hydrate_result' = hr
            /\ gate_result' = g.result
            /\ react_result' = g.agent
            /\ react_calls' = IF g.agent.kind = "none" THEN react_calls
                              ELSE react_calls + 1
    /\ pc' = "done"
    /\ UNCHANGED <<payload, memory_state, required_slots_override>>
    /\ UNCHANGED <<hvars, ovars, xvars>>

\* the route saves new_state and answers
DebugPersist ==
    /\ pc = "done"
    /\ store' = IF Truthy(payload.session_id)
                THEN SaveSession(store, payload.session_id,
                                 DebugState(memory_state,
                                            DebugResult(parse_result, gate_result,
                                                        required_slots_override)))
                ELSE store
    /\ turns_done' = turns_done + 1
    /\ pc' = "idle"
    /\ payload' = NULL /\ memory_state' = NoMemory
    /\ required_slots_override' = <<>> /\ parse_result' = NULL
    /\ hydrate_result' = NULL /\ react_calls' = 0 /\ react_result' = NoAgent
    /\ gate_result' = NULL
    /\ UNCHANGED <<hpc, hreq, hpayload, hmem, hresult, calls, ovars, xvars>>

\* time passes an entry's expires_at between two debug requests
DebugSessionExpires ==
    /\ pc = "idle"
    /\ SessionExpires

\* ------------------------------------------------ overlapping hybrid turns
\* Requests are served concurrently on one event loop: a turn runs from one
\* await to the next, and turns of the same session interleave at the awaits.
MaxOverlap == 2
TurnIds == 1..MaxOverlap

OverlapRequests ==
    {Request(sid, h, q, NULL, NULL) :
        sid \in Sessions, h \in {"arrears_check", "fee_verify"},
        q \in {<<>>, <<"zhebi">>}}

\* what the workflow's calls do in an overlapping turn
OverlapArrearsOutcomes ==
    {api \in ArrearsApiOutcomes : api.kind = "ok" /\ api.rows /= <<>>}
OverlapOrderOutcomes ==
    {o \in OrderApiOutcomes : o.kind = "ok" /\ o.entry_time = "ok" /\ o.exit_time = "ok"}
OverlapSimOutcomes ==
    {sim \in SimApiOutcomes : sim.kind = "ok" /\ sim.total_amount = OrderAmount}

\* run_hybrid_workflow for a request whose intent_hint is a valid intent:
\* intent_classifier, the flow of the intent, rag_retrieve (n items) unless
\* the intent is arrears_check, answer_synthesizer
RunHybridWorkflow(p, arrears, fee, n) ==
    LET intent == p.intent_hint
        flow == RouteFromIntent(intent)
        facts == IF flow = "arrears_check_flow" THEN BuildArrearsFacts(p, arrears)
                 ELSE IF flow = "fee_verify_flow" THEN BuildFeeVerifyFacts(p, fee).facts
                 ELSE [NoFacts EXCEPT !.intent = "rule_explain",
                                      !.note = "RAG-only explanation flow"]
        retrieved == IF flow = "arrears_check_flow" THEN 0 ELSE n
        retrieve_trace == IF flow = "arrears_check_flow" THEN <<>>
                          ELSE <<"rag_retrieve:" \o ToString(n)>>
    IN [NoResult EXCEPT
          !.intent = intent,
          !.retrieved_count = retrieved,
          !.business_facts = facts,
          !.conclusion = "answer",
          !.model = "deepseek",
          !.trace = <<"intent_classifier:" \o intent, flow>> \o retrieve_trace
                    \o <<"answer_synthesizer">>]

\* the result run_hybrid_answering builds at lines 241-253 when the order
\* reference is ambiguous
MemoryClarifyResult(hydrated, mem) ==
    LET intent == IF Truthy(hydrated.payload.intent_hint)
                  THEN hydrated.payload.intent_hint ELSE "fee_verify"
    IN [NoResult EXCEPT
          !.intent = intent,
          !.business_facts =
              [NoFacts EXCEPT !.intent = intent,
                              !.error = "order_reference_ambiguous",
                              !.order_candidates = mem.order_candidates],
          !.conclusion = hydrated.clarify,
          !.model = "",
          !.memory_trace = hydrated.traces,
          !.trace = Append(hydrated.traces, "answer_synthesizer:memory_clarify")]

\* reads and writes count the turn's get_session and save_session calls
IdleTurn ==
    [pc |-> "idle", req |-> NULL, payload |-> NULL, mem |-> NoMemory,
     result |-> NoResult, reads |-> 0, writes |-> 0]

OverlapIdle ==
    /\ turn = [t \in TurnIds |-> IdleTurn]
    /\ last_writer = [s \in Sessions |-> 0]
    /\ arrived = <<>>

\* an overlapping turn leaves the other models' variables alone
OverlapFrame ==
    UNCHANGED <<rvars, hpc, hreq, hpayload, hmem, hresult, calls, turns_done, arrived,
                xvars>>

OverlapReceive(t) ==
    /\ turn[t].pc = "idle"
    /\ \E r \in OverlapRequests :
         turn' = [turn EXCEPT ![t] = [@ EXCEPT !.pc = "memory", !.req = r,
                                                !.payload = r]]
    /\ UNCHANGED <<store, last_writer>>
    /\ OverlapFrame

\* run_hybrid_answering, lines 237-239 with no clarification
OverlapMemoryHydrate(t) ==
    /\ turn[t].pc = "memory"
    /\ LET sid == turn[t].req.session_id
           mem == GetSession(store, sid)
           hydrated == ApplyMemoryHydrate(turn[t].req, mem)
       IN /\ hydrated.clarify = NULL
          /\ turn' = [turn EXCEPT ![t] =
                        [@ EXCEPT !.pc = "workflow", !.mem = mem,
                                  !.payload = hydrated.payload,
                                  !.result = [NoResult EXCEPT
                                                !.memory_trace = hydrated.traces],
                                  !.reads = @ + 1]]
          /\ store' = StoreAfterGet(store, sid)
    /\ UNCHANGED last_writer
    /\ OverlapFrame

\* run_hybrid_answering, lines 240-255: the order reference is ambiguous
OverlapMemoryClarify(t) ==
    /\ turn[t].pc = "memory"
    /\ LET sid == turn[t].req.session_id
           mem == GetSession(store, sid)
           hydrated == ApplyMemoryHydrate(turn[t].req, mem)
           p == hydrated.payload
           result == MemoryClarifyResult(hydrated, mem)
       IN /\ hydrated.clarify /= NULL
          /\ turn' = [turn EXCEPT ![t] =
                        [@ EXCEPT !.pc = "done", !.mem = mem, !.payload = p,
                                  !.result = result, !.reads = @ + 1,
                                  !.writes = @ + 1]]
          /\ store' = PersistSessionMemory(StoreAfterGet(store, sid), p, result, mem)
          /\ last_writer' = [last_writer EXCEPT ![sid] = t]
    /\ OverlapFrame

\* run_hybrid_workflow returns
OverlapWorkflow(t) ==
    /\ turn[t].pc = "workflow"
    /\ \E arrears \in OverlapArrearsOutcomes, o \in OverlapOrderOutcomes,
          sim \in OverlapSimOutcomes, n \in {0, 1} :
         LET run == RunHybridWorkflow(turn[t].payload, arrears,
                                      [order |-> o, sim |-> sim], n)
         IN turn' = [turn EXCEPT ![t] =
                       [@ EXCEPT !.pc = "persist",
                                 !.result = [run EXCEPT
                                               !.memory_trace = turn[t].result.memory_trace]]]
    /\ UNCHANGED <<store, last_writer>>
    /\ OverlapFrame

\* run_hybrid_workflow raises: the turn ends without a write
OverlapWorkflowFails(t) ==
    /\ turn[t].pc = "workflow"
    /\ turn' = [turn EXCEPT ![t] = [@ EXCEPT !.pc = "failed"]]
    /\ UNCHANGED <<store, last_writer>>
    /\ OverlapFrame

\* run_hybrid_answering, lines 303-306
OverlapPersist(t) ==
    /\ turn[t].pc = "persist"
    /\ LET sid == turn[t].req.session_id
           result == [turn[t].result EXCEPT
                        !.trace = turn[t].result.memory_trace \o @
                                  \o <<"memory_persist">>]
       IN /\ turn' = [turn EXCEPT ![t] = [@ EXCEPT !.pc = "done", !.result = result,
                                                   !.writes = @ + 1]]
          /\ store' = PersistSessionMemory(store, turn[t].payload, result, turn[t].mem)
          /\ last_writer' = [last_writer EXCEPT ![sid] = t]
    /\ OverlapFrame

NextOverlap ==
    \/ \E t \in TurnIds : OverlapReceive(t)
    \/ \E t \in TurnIds : OverlapMemoryHydrate(t)
    \/ \E t \in TurnIds : OverlapMemoryClarify(t)
    \/ \E t \in TurnIds : OverlapWorkflow(t)
    \/ \E t \in TurnIds : OverlapWorkflowFails(t)
    \/ \E t \in TurnIds : OverlapPersist(t)

\* ------------------------------------------------ turns of one session
\* Turns of one session that follow one another within the TTL, each from its
\* read of the memory to its write.
MaxWrites == 3

TurnsSession == CHOOSE s \in Sessions : TRUE

TurnsRequests ==
    {Request(TurnsSession, h, q, NULL, NULL) :
        h \in VALID_INTENTS, q \in {<<>>, <<"zhebi">>}}

\* run_hybrid_answering from its read to the state it persists
TurnOutcome(r, mem, arrears, fee, n) ==
    LET hydrated == ApplyMemoryHydrate(r, mem)
    IN [payload |-> hydrated.payload,
        result |-> IF hydrated.clarify /= NULL
                   THEN MemoryClarifyResult(hydrated, mem)
                   ELSE RunHybridWorkflow(hydrated.payload, arrears, fee, n)]

SequentialTurn ==
    /\ Len(arrived) < MaxWrites
    /\ \E r \in TurnsRequests, arrears \in OverlapArrearsOutcomes,
          o \in OverlapOrderOutcomes, sim \in OverlapSimOutcomes, n \in {0, 1} :
         LET mem == GetSession(store, r.session_id)
             out == TurnOutcome(r, mem, arrears, [order |-> o, sim |-> sim], n)
         IN /\ store' = PersistSessionMemory(StoreAfterGet(store, r.session_id),
                                             out.payload, out.result, mem)
            /\ arrived' = Append(arrived, [query |-> r.query,
                                           intent |-> out.result.intent])
    /\ UNCHANGED <<rvars, hpc, hreq, hpayload, hmem, hresult, calls, turns_done,
                   turn, last_writer, xvars>>

NextTurns == SequentialTurn

\* ------------------------------------------------ billing engine (biz-api)
\* services/billing_engine.py.  An instant is a count of seconds since Monday
\* 2026-01-26 00:00 UTC; a wall-clock time of a zone is the same count read in
\* that zone; for naive datetimes (aware = FALSE) no zone conversion happens
\* and both coincide.  A date is a count of days, an "HH:MM" text is the pair
\* <<HH, MM>>, an interval is a pair <<start, end>>, an amount is a Decimal in
\* thousandths.

\* timedelta(days=1), in minutes
MinutesPerDay == 1440

\* timedelta(minutes=1), in seconds
SecondsPerMinute == 60

SecondsPerDay == MinutesPerDay * SecondsPerMinute

Max2(a, b) == IF a >= b THEN a ELSE b

Min2(a, b) == IF a <= b THEN a ELSE b

\* the longest rule payload drawn
MaxSegments == 2

At(day, hours, minutes) ==
    (day * MinutesPerDay + hours * 60 + minutes) * SecondsPerMinute

\* _load_timezone: the zone's offset from UTC (zones without DST)
UtcOffset(tz_name) ==
    CASE tz_name = "Asia/Shanghai" -> 480 * SecondsPerMinute
      [] tz_name = "Asia/Tokyo" -> 540 * SecondsPerMinute
      [] tz_name = "UTC" -> 0

ParseHhmm(value) == <<value[1], value[2]>>

ToNamedTimezone(ts, tz_name, aware) ==
    IF ~aware THEN ts ELSE ts + UtcOffset(tz_name)

\* the instant of a wall-clock time of zone tz_name
ToBaseTimezone(ts, tz_name, aware) ==
    IF ~aware THEN ts ELSE ts - UtcOffset(tz_name)

ResolveWindowTimezone(item) ==
    IF item.time_window = None THEN "Asia/Shanghai"
    ELSE IF item.time_window[1].timezone = NULL THEN "Asia/Shanghai"
    ELSE item.time_window[1].timezone

\* datetime.date() and date.isoweekday(); date 0 is a Monday
LocalDate(ts) == ts \div SecondsPerDay

IsoWeekday(date) == (date % 7) + 1

InTimeWindow(ts, start, end) ==
    LET current == (ts % SecondsPerDay) \div SecondsPerMinute
        start_minute == ParseHhmm(start)[1] * 60 + ParseHhmm(start)[2]
        end_minute == ParseHhmm(end)[1] * 60 + ParseHhmm(end)[2]
    IN IF start_minute = end_minute THEN TRUE
       ELSE IF start_minute < end_minute
       THEN start_minute <= current /\ current < end_minute
       ELSE current >= start_minute \/ current < end_minute

ItemMatches(ts, item, aware) ==
    LET local_ts == ToNamedTimezone(ts, ResolveWindowTimezone(item), aware)
    IN IF item.weekdays /= {} /\ IsoWeekday(LocalDate(local_ts)) \notin item.weekdays
       THEN FALSE
       ELSE IF item.time_window = None THEN TRUE
       ELSE InTimeWindow(local_ts, item.time_window[1].start, item.time_window[1].end)

RECURSIVE TieredSum(_, _, _, _)
TieredSum(unit_index, units, unit_minutes, tiers) ==
    IF unit_index >= units THEN 0
    ELSE LET start_minute == unit_index * unit_minutes
             hits == {i \in 1..Len(tiers) :
                        /\ start_minute >= tiers[i].start_minute
                        /\ (tiers[i].end_minute = None \/ start_minute < tiers[i].end_minute[1])}
             unit_price == IF hits = {} THEN 0
                           ELSE tiers[CHOOSE i \in hits : \A j \in hits : i <= j].unit_price
         IN unit_price + TieredSum(unit_index + 1, units, unit_minutes, tiers)

ComputeTieredAmount(units, unit_minutes, tiers) == TieredSum(0, units, unit_minutes, tiers)

\* a rounding to two decimals that goes to the even neighbour on a tie
QuantizeHalfEven(value) ==
    LET q == value \div 10
        r == value % 10
    IN IF r > 5 \/ (r = 5 /\ q % 2 = 1) THEN (q + 1) * 10 ELSE q * 10

\* _quantize: two decimals, ROUND_HALF_UP (amounts are not negative)
Quantize(value) == ((value + 5) \div 10) * 10

\* sorted(intervals, key=start): stable
RECURSIVE InsertByStart(_, _)
InsertByStart(iv, sorted) ==
    IF sorted = <<>> THEN <<iv>>
    ELSE IF Head(sorted)[1] <= iv[1]
    THEN <<Head(sorted)>> \o InsertByStart(iv, Tail(sorted))
    ELSE <<iv>> \o sorted

RECURSIVE SortedByStart(_)
SortedByStart(intervals) ==
    IF intervals = <<>> THEN <<>>
    ELSE InsertByStart(intervals[Len(intervals)],
                       SortedByStart(SubSeq(intervals, 1, Len(intervals) - 1)))

RECURSIVE MergeSorted(_, _)
MergeSorted(merged, rest) ==
    IF rest = <<>> THEN merged
    ELSE LET current == Head(rest)
             last == merged[Len(merged)]
         IN IF current[1] <= last[2]
            THEN MergeSorted([merged EXCEPT ![Len(merged)] =
                                 <<last[1], Max2(last[2], current[2])>>], Tail(rest))
            ELSE MergeSorted(Append(merged, current), Tail(rest))

MergeIntervals(intervals) ==
    IF intervals = <<>> THEN <<>>
    ELSE LET sorted_intervals == SortedByStart(intervals)
         IN MergeSorted(<<Head(sorted_intervals)>>, Tail(sorted_intervals))

\* the inner loop of _subtract_intervals for one interval [start, end)
RECURSIVE SubtractCovers(_, _, _, _)
SubtractCovers(cursor, end, covers, result) ==
    IF covers = <<>>
    THEN IF cursor < end THEN Append(result, <<cursor, end>>) ELSE result
    ELSE LET cover == Head(covers)
         IN IF cover[2] <= cursor
            THEN SubtractCovers(cursor, end, Tail(covers), result)
            ELSE IF cover[1] >= end
            THEN IF cursor < end THEN Append(result, <<cursor, end>>) ELSE result
            ELSE LET kept == IF cover[1] > cursor
                             THEN Append(result, <<cursor, Min2(cover[1], end)>>)
                             ELSE result
                     moved == Max2(cursor, cover[2])
                 IN IF moved >= end THEN kept
                    ELSE SubtractCovers(moved, end, Tail(covers), kept)

RECURSIVE SubtractEach(_, _)
SubtractEach(intervals, covered_merged) ==
    IF intervals = <<>> THEN <<>>
    ELSE SubtractCovers(Head(intervals)[1], Head(intervals)[2], covered_merged, <<>>)
         \o SubtractEach(Tail(intervals), covered_merged)

\* a subtraction that leaves the intervals as they are
SubtractNothing(intervals, covered) == intervals

SubtractIntervals(intervals, covered) ==
    IF intervals = <<>> THEN <<>>
    ELSE IF covered = <<>> THEN intervals
    ELSE SubtractEach(intervals, MergeIntervals(covered))

\* the intervals of one local date, then clipped to the stay and converted
DayIntervalsLocal(item, local_date) ==
    LET day_start_local == local_date * SecondsPerDay
        next_day_start_local == day_start_local + SecondsPerDay
        window == item.time_window[1]
        start_minute == ParseHhmm(window.start)[1] * 60 + ParseHhmm(window.start)[2]
        end_minute == ParseHhmm(window.end)[1] * 60 + ParseHhmm(window.end)[2]
    IN IF item.time_window = None THEN <<<<day_start_local, next_day_start_local>>>>
       ELSE IF start_minute = end_minute
       THEN <<<<day_start_local, next_day_start_local>>>>
       ELSE IF start_minute < end_minute
       THEN <<<<day_start_local + start_minute * SecondsPerMinute,
                day_start_local + end_minute * SecondsPerMinute>>>>
       ELSE << <<day_start_local, day_start_local + end_minute * SecondsPerMinute>>,
               <<day_start_local + start_minute * SecondsPerMinute,
                 next_day_start_local>> >>

RECURSIVE ClipIntervals(_, _, _, _, _)
ClipIntervals(day_intervals_local, local_entry, local_exit, tz_name, aware) ==
    IF day_intervals_local = <<>> THEN <<>>
    ELSE LET clipped_start == Max2(Head(day_intervals_local)[1], local_entry)
             clipped_end == Min2(Head(day_intervals_local)[2], local_exit)
             rest == ClipIntervals(Tail(day_intervals_local), local_entry, local_exit,
                                   tz_name, aware)
         IN IF clipped_start >= clipped_end THEN rest
            ELSE << <<ToBaseTimezone(clipped_start, tz_name, aware),
                      ToBaseTimezone(clipped_end, tz_name, aware)>> >> \o rest

RECURSIVE CandidatesFrom(_, _, _, _, _, _)
CandidatesFrom(item, local_date, end_date, local_entry, local_exit, aware) ==
    IF local_date > end_date THEN <<>>
    ELSE LET rest == CandidatesFrom(item, local_date + 1, end_date, local_entry,
                                    local_exit, aware)
         IN IF item.weekdays /= {} /\ IsoWeekday(local_date) \notin item.weekdays
            THEN rest
            ELSE ClipIntervals(DayIntervalsLocal(item, local_date), local_entry, local_exit,
                               ResolveWindowTimezone(item), aware) \o rest

BuildSegmentCandidateIntervals(item, entry_time, exit_time, aware) ==
    LET timezone_name == ResolveWindowTimezone(item)
        local_entry == ToNamedTimezone(entry_time, timezone_name, aware)
        local_exit == ToNamedTimezone(exit_time, timezone_name, aware)
    IN MergeIntervals(CandidatesFrom(item, LocalDate(local_entry), LocalDate(local_exit),
                                     local_entry, local_exit, aware))

\* math.ceil of a / b, b > 0
CeilDiv(a, b) == -((-a) \div b)

\* _iter_minute_points: the points origin + n minutes from n =
\* max(0, ceil((start - origin) / 1 minute)) on, as long as they lie before
\* end and before overall_end; <<first, last>> of them, None when there is none
MinutePoints(origin, overall_end, start, end) ==
    IF start >= end THEN None
    ELSE LET n == Max2(0, CeilDiv(start - origin, SecondsPerMinute))
             point == origin + n * SecondsPerMinute
             stop == Min2(end, overall_end)
         IN IF point >= stop THEN None
            ELSE Some(<<point,
                        point + ((stop - 1 - point) \div SecondsPerMinute)
                                    * SecondsPerMinute>>)

\* day_map[day_key] = day_map.get(day_key, 0) + 1, n times; keys keep their
\* order of insertion
DayMapAdd(day_map, day_key, n) ==
    IF \E i \in 1..Len(day_map) : day_map[i].day = day_key
    THEN [i \in 1..Len(day_map) |->
            IF day_map[i].day = day_key
            THEN [day_map[i] EXCEPT !.minutes = @ + n] ELSE day_map[i]]
    ELSE Append(day_map, [day |-> day_key, minutes |-> n])

\* the points lo, lo + 1 minute, ..., hi, ascending, each counted under its
\* local date
RECURSIVE CountPoints(_, _, _, _, _)
CountPoints(day_map, lo, hi, tz_name, aware) ==
    IF lo > hi THEN day_map
    ELSE LET day_key == LocalDate(ToNamedTimezone(lo, tz_name, aware))
             next_day == ToBaseTimezone((day_key + 1) * SecondsPerDay, tz_name, aware)
             last == Min2(hi, lo + ((next_day - 1 - lo) \div SecondsPerMinute)
                                       * SecondsPerMinute)
         IN CountPoints(DayMapAdd(day_map, day_key,
                                  (last - lo) \div SecondsPerMinute + 1),
                        last + SecondsPerMinute, hi, tz_name, aware)

RECURSIVE CountIntervals(_, _, _, _, _, _)
CountIntervals(day_map, active_intervals, entry_time, exit_time, tz_name, aware) ==
    IF active_intervals = <<>> THEN day_map
    ELSE LET points == MinutePoints(entry_time, exit_time, Head(active_intervals)[1],
                                    Head(active_intervals)[2])
             counted == IF points = None THEN day_map
                        ELSE CountPoints(day_map, points[1][1], points[1][2],
                                         tz_name, aware)
         IN CountIntervals(counted, Tail(active_intervals), entry_time, exit_time,
                           tz_name, aware)

RECURSIVE SumMinutes(_)
SumMinutes(day_map) ==
    IF day_map = <<>> THEN 0 ELSE Head(day_map).minutes + SumMinutes(Tail(day_map))

\* a pricing of the day buckets that gives every day the whole free_minutes
RECURSIVE PriceDaysFreePerDay(_, _, _, _)
PriceDaysFreePerDay(item, day_map, i, remaining_free) ==
    IF i > Len(day_map) THEN <<>>
    ELSE LET day_minutes == day_map[i].minutes
             unit_minutes == Max2(1, item.unit_minutes)
             day_chargeable_minutes == Max2(0, day_minutes - item.free_minutes)
             units == (day_chargeable_minutes + unit_minutes - 1) \div unit_minutes
             day_amount == IF item.type = "periodic" THEN units * item.unit_price
                           ELSE IF item.type = "tiered"
                           THEN ComputeTieredAmount(units, unit_minutes, item.tiers)
                           ELSE 0
             capped == item.max_charge /= None /\ day_amount >= item.max_charge[1]
         IN <<[day |-> day_map[i].day,
               day_minutes |-> day_minutes,
               remaining_free |-> item.free_minutes,
               day_chargeable_minutes |-> day_chargeable_minutes,
               units |-> units,
               day_amount |-> IF capped THEN item.max_charge[1] ELSE day_amount,
               capped |-> capped]>>
            \o PriceDaysFreePerDay(item, day_map, i + 1, item.free_minutes)

\* a pricing of the day buckets that never caps a day
RECURSIVE PriceDaysUncapped(_, _, _, _)
PriceDaysUncapped(item, day_map, i, remaining_free) ==
    IF i > Len(day_map) THEN <<>>
    ELSE LET day_minutes == day_map[i].minutes
             unit_minutes == Max2(1, item.unit_minutes)
             day_chargeable_minutes == Max2(0, day_minutes - remaining_free)
             units == (day_chargeable_minutes + unit_minutes - 1) \div unit_minutes
             day_amount == IF item.type = "periodic" THEN units * item.unit_price
                           ELSE IF item.type = "tiered"
                           THEN ComputeTieredAmount(units, unit_minutes, item.tiers)
                           ELSE 0
         IN <<[day |-> day_map[i].day,
               day_minutes |-> day_minutes,
               remaining_free |-> remaining_free,
               day_chargeable_minutes |-> day_chargeable_minutes,
               units |-> units,
               day_amount |-> day_amount,
               capped |-> FALSE]>>
            \o PriceDaysUncapped(item, day_map, i + 1,
                                 Max2(0, remaining_free - day_minutes))

\* the loop over a segment's day buckets (simulate_fee lines 316-335); each
\* entry records what the iteration computed
RECURSIVE PriceDays(_, _, _, _)
PriceDays(item, day_map, i, remaining_free) ==
    IF i > Len(day_map) THEN <<>>
    ELSE LET day_minutes == day_map[i].minutes
             unit_minutes == Max2(1, item.unit_minutes)
             day_chargeable_minutes == Max2(0, day_minutes - remaining_free)
             units == (day_chargeable_minutes + unit_minutes - 1) \div unit_minutes
             day_amount == IF item.type = "periodic" THEN units * item.unit_price
                           ELSE IF item.type = "tiered"
                           THEN ComputeTieredAmount(units, unit_minutes, item.tiers)
                           ELSE 0
             capped == item.max_charge /= None /\ day_amount >= item.max_charge[1]
         IN <<[day |-> day_map[i].day,
               day_minutes |-> day_minutes,
               remaining_free |-> remaining_free,
               day_chargeable_minutes |-> day_chargeable_minutes,
               units |-> units,
               day_amount |-> IF capped THEN item.max_charge[1] ELSE day_amount,
               capped |-> capped]>>
            \o PriceDays(item, day_map, i + 1, Max2(0, remaining_free - day_minutes))

RECURSIVE SumDayAmounts(_)
SumDayAmounts(days) ==
    IF days = <<>> THEN 0 ELSE Head(days).day_amount + SumDayAmounts(Tail(days))

\* one breakdown entry (simulate_fee lines 303-349); raw_amount is the amount
\* before _quantize and days the iterations of the day loop
BreakdownEntry(item, minutes, day_map) ==
    LET days == IF item.type = "free" THEN <<>>
                ELSE PriceDays(item, day_map, 1, item.free_minutes)
        amount == SumDayAmounts(days)
    IN [segment_name |-> item.name,
        segment_type |-> item.type,
        item |-> item,
        minutes |-> minutes,
        raw_amount |-> amount,
        amount |-> Quantize(amount),
        free_minutes |-> IF item.type = "free" THEN minutes ELSE item.free_minutes,
        capped |-> \E i \in 1..Len(days) : days[i].capped,
        days |-> days]

\* the item field of an entry is the payload item it was computed from

\* the loop over sorted(segment_minutes.items())
RECURSIVE BreakdownFrom(_, _, _, _)
BreakdownFrom(normalized_payload, segment_minutes, segment_day_minutes, segment_index) ==
    IF segment_index > Len(normalized_payload) THEN <<>>
    ELSE LET rest == BreakdownFrom(normalized_payload, segment_minutes,
                                   segment_day_minutes, segment_index + 1)
         IN IF segment_minutes[segment_index] = 0 THEN rest
            ELSE <<BreakdownEntry(normalized_payload[segment_index],
                                  segment_minutes[segment_index],
                                  segment_day_minutes[segment_index])>> \o rest

RECURSIVE SumAmounts(_)
SumAmounts(breakdown) ==
    IF breakdown = <<>> THEN 0 ELSE Head(breakdown).amount + SumAmounts(Tail(breakdown))

\* ---- the rule payloads and stays drawn
Window(start, end, timezone) == Some([start |-> start, end |-> end, timezone |-> timezone])

Segment(name, type, time_window, weekdays) ==
    [name |-> name, type |-> type, time_window |-> time_window, weekdays |-> weekdays,
     unit_minutes |-> 30, unit_price |-> 0, free_minutes |-> 0, max_charge |-> None,
     tiers |-> <<>>]

BillingItems ==
    { [Segment("day_periodic", "periodic", Window(<<8, 0>>, <<20, 0>>, NULL), {})
          EXCEPT !.unit_price = 2000, !.max_charge = Some(20000)],
      [Segment("night_periodic", "periodic", Window(<<20, 0>>, <<8, 0>>, NULL), {})
          EXCEPT !.unit_minutes = 60, !.unit_price = 2000, !.max_charge = Some(10000)],
      [Segment("day_tiered", "tiered", Window(<<8, 0>>, <<20, 0>>, NULL), {})
          EXCEPT !.free_minutes = 30, !.max_charge = Some(20000),
                 !.tiers = <<[start_minute |-> 0, end_minute |-> Some(120), unit_price |-> 2000],
                             [start_minute |-> 120, end_minute |-> None, unit_price |-> 3000]>>],
      Segment("night_free", "free", Window(<<20, 0>>, <<8, 0>>, NULL), {}),
      [Segment("utc_periodic", "periodic", Window(<<1, 0>>, <<3, 0>>, "UTC"), {})
          EXCEPT !.unit_price = 2000],
      [Segment("weekday_periodic", "periodic", None, {1, 2, 3, 4, 5})
          EXCEPT !.unit_minutes = 60, !.unit_price = 1125, !.free_minutes = 90],
      Segment("tokyo_weekend_free", "free", Window(<<22, 0>>, <<6, 0>>, "Asia/Tokyo"), {6, 7}) }

BillingPayloads == UNION {[1..n -> BillingItems] : n \in 1..MaxSegments}

\* 2026-02-01, a Sunday
Feb1 == 6

\* stays whose entry or exit carries seconds
UnalignedStays ==
    { [entry_time |-> At(Feb1, 7, 59) + 30, exit_time |-> At(Feb1, 8, 0) + 10,
       aware |-> FALSE],
      [entry_time |-> At(Feb1, 9, 0), exit_time |-> At(Feb1, 9, 1) + 30,
       aware |-> FALSE],
      [entry_time |-> At(Feb1, 19, 58) + 30, exit_time |-> At(Feb1, 20, 30) + 45,
       aware |-> FALSE],
      [entry_time |-> At(Feb1, 0, 59) + 15, exit_time |-> At(Feb1, 3, 0) + 5,
       aware |-> TRUE] }

BillingStays ==
    { [entry_time |-> At(Feb1, 9, 0), exit_time |-> At(Feb1 + 2, 15, 10), aware |-> FALSE],
      [entry_time |-> At(Feb1, 9, 0), exit_time |-> At(Feb1 + 2, 8, 29), aware |-> FALSE],
      [entry_time |-> At(Feb1, 23, 0), exit_time |-> At(Feb1 + 1, 1, 0), aware |-> FALSE],
      [entry_time |-> At(Feb1, 9, 0), exit_time |-> At(Feb1, 10, 5), aware |-> FALSE],
      [entry_time |-> At(Feb1, 9, 0), exit_time |-> At(Feb1, 9, 0), aware |-> FALSE],
      [entry_time |-> At(Feb1, 9, 0), exit_time |-> At(Feb1, 8, 0), aware |-> FALSE],
      [entry_time |-> At(Feb1, 1, 0), exit_time |-> At(Feb1, 2, 0), aware |-> TRUE],
      [entry_time |-> At(Feb1, 0, 30), exit_time |-> At(Feb1 + 1, 3, 30), aware |-> TRUE] }
    \cup { [entry_time |-> e, exit_time |-> e + d * SecondsPerMinute, aware |-> a] :
             e \in {At(Feb1, 7, 30), At(Feb1, 19, 45)}, d \in {45, 750}, a \in BOOLEAN }
    \cup UnalignedStays

\* ---- simulate_fee as steps
NoBill ==
    [pc |-> "idle", payload |-> <<>>, entry_time |-> 0, exit_time |-> 0, aware |-> FALSE,
     idx |-> 0, covered_intervals |-> <<>>, active |-> <<>>, segment_minutes |-> <<>>,
     segment_day_minutes |-> <<>>, day_map_keys |-> {}, duration_minutes |-> 0,
     total_amount |-> 0, breakdown |-> <<>>]

BillingIdle == bill = NoBill

\* simulate_fee is called
BillingCalled ==
    \E rule_payload \in BillingPayloads, stay \in BillingStays :
        bill = [NoBill EXCEPT !.pc = "simulate_fee",
                              !.payload = rule_payload,
                              !.entry_time = stay.entry_time,
                              !.exit_time = stay.exit_time,
                              !.aware = stay.aware]

BillingFrame == UNCHANGED <<rvars, hvars, ovars, kb, react>>

\* lines 276-281
BillingEmptyStay ==
    /\ bill.pc = "simulate_fee"
    /\ bill.exit_time <= bill.entry_time
    /\ bill' = [bill EXCEPT !.pc = "done"]
    /\ BillingFrame

\* lines 283-287
BillingNormalize ==
    /\ bill.pc = "simulate_fee"
    /\ bill.exit_time > bill.entry_time
    /\ bill' = [bill EXCEPT
                  !.pc = "collect",
                  !.idx = 1,
                  !.duration_minutes =
                      (bill.exit_time - bill.entry_time) \div SecondsPerMinute,
                  !.active = [i \in 1..Len(bill.payload) |-> <<>>],
                  !.segment_minutes = [i \in 1..Len(bill.payload) |-> 0],
                  !.segment_day_minutes = [i \in 1..Len(bill.payload) |-> <<>>]]
    /\ BillingFrame

\* one iteration of the loop of collect_segment_minutes_by_window
BillingCollectSegment ==
    /\ bill.pc = "collect"
    /\ LET item == bill.payload[bill.idx]
           candidate_intervals ==
               BuildSegmentCandidateIntervals(item, bill.entry_time, bill.exit_time,
                                              bill.aware)
           active_intervals == SubtractIntervals(candidate_intervals, bill.covered_intervals)
           day_map == CountIntervals(<<>>, active_intervals, bill.entry_time,
                                     bill.exit_time, ResolveWindowTimezone(item), bill.aware)
           last == bill.idx = Len(bill.payload)
       IN bill' = [bill EXCEPT
                     !.pc = IF last THEN "price" ELSE "collect",
                     !.idx = IF last THEN @ ELSE @ + 1,
                     !.active[bill.idx] = active_intervals,
                     !.segment_minutes[bill.idx] = SumMinutes(day_map),
                     !.segment_day_minutes[bill.idx] = day_map,
                     !.day_map_keys =
                         IF active_intervals = <<>> THEN @ ELSE @ \cup {bill.idx},
                     !.covered_intervals =
                         IF active_intervals = <<>> THEN @
                         ELSE MergeIntervals(@ \o active_intervals)]
    /\ BillingFrame

\* lines 292-355
BillingPrice ==
    /\ bill.pc = "price"
    /\ LET breakdown == BreakdownFrom(bill.payload, bill.segment_minutes,
                                      bill.segment_day_minutes, 1)
       IN bill' = [bill EXCEPT
                     !.pc = "done",
                     !.breakdown = breakdown,
                     !.total_amount = Quantize(SumAmounts(breakdown))]
    /\ BillingFrame

\* ------------------------------------------------ knowledge repository
\* repositories/knowledge.py.  A source row is [id, source_id, doc_type,
\* city_code, is_active], a chunk row [id, source_pk, chunk_index, embedding];
\* an embedding is a tuple of integers.  The requests drawn carry a
\* query_embedding and no source_type, lot_code or at_time.

\* settings.embedding_dim (1536), scaled down
EMBEDDING_DIM == 2

\* the largest top_k drawn
MaxTopK == 2

\* the longest batch of chunks drawn
MaxBatch == 2

\* how many writes (upserts, ingests) a behaviour makes to the db
MaxStoreWrites == 1

\* the order of source_id strings under ORDER BY source_id ASC
SourceRank(source_id) ==
    CASE source_id = "SRC-A" -> 1
      [] source_id = "SRC-B" -> 2
      [] source_id = "SRC-C" -> 3
      [] source_id = "SRC-D" -> 4

KnowledgeSources ==
    { [id |-> 1, source_id |-> "SRC-A", doc_type |-> "rule_explain",
       city_code |-> "310100", is_active |-> TRUE],
      [id |-> 2, source_id |-> "SRC-B", doc_type |-> "faq",
       city_code |-> "310100", is_active |-> TRUE],
      [id |-> 3, source_id |-> "SRC-C", doc_type |-> "rule_explain",
       city_code |-> "440300", is_active |-> FALSE] }

\* chunk rows earlier ingests can have left
ChunkUniverse ==
    { [id |-> 1, source_pk |-> 1, chunk_index |-> 0, embedding |-> <<1, 0>>],
      [id |-> 2, source_pk |-> 1, chunk_index |-> 1, embedding |-> <<2, 0>>],
      [id |-> 3, source_pk |-> 2, chunk_index |-> 0, embedding |-> <<1, 0>>],
      [id |-> 4, source_pk |-> 1, chunk_index |-> 0, embedding |-> <<1, 1>>],
      [id |-> 5, source_pk |-> 3, chunk_index |-> 0, embedding |-> <<-1, 1>>] }

NoCall == [op |-> "none", request |-> NULL, status |-> 0, error |-> NULL, items |-> <<>>]

NoKb == [sources |-> {}, chunks |-> {}, next_source_pk |-> 1, next_chunk_id |-> 1,
         writes |-> 0, last |-> NoCall]

KnowledgeIdle == kb = NoKb

\* a store earlier upserts and ingests have filled
KnowledgeFilled ==
    \E chunks \in SUBSET ChunkUniverse :
        kb = [NoKb EXCEPT !.sources = KnowledgeSources,
                          !.chunks = chunks,
                          !.next_source_pk = 4,
                          !.next_chunk_id = 6]

KnowledgeFrame == UNCHANGED <<rvars, hvars, ovars, bill, react>>

SourceOf(sources, source_id) == {s \in sources : s.source_id = source_id}

UpsertRequests ==
    {[source_id |-> sid, doc_type |-> "faq", city_code |-> "310100", is_active |-> a] :
        sid \in {"SRC-C", "SRC-D"}, a \in BOOLEAN}

\* POST /api/v1/knowledge/sources
UpsertSource ==
    /\ kb.last.op = "none"
    /\ kb.writes < MaxStoreWrites
    /\ \E req \in UpsertRequests :
         LET existing == SourceOf(kb.sources, req.source_id)
             row == [id |-> IF existing = {} THEN kb.next_source_pk
                            ELSE (CHOOSE s \in existing : TRUE).id,
                     source_id |-> req.source_id,
                     doc_type |-> req.doc_type,
                     city_code |-> req.city_code,
                     is_active |-> req.is_active]
         IN kb' = [kb EXCEPT
                     !.sources = (@ \ existing) \cup {row},
                     !.next_source_pk = IF existing = {} THEN @ + 1 ELSE @,
                     !.writes = @ + 1,
                     !.last = [NoCall EXCEPT !.op = "upsert_source", !.request = req,
                                             !.status = 200]]
    /\ KnowledgeFrame

ChunkEmbeddings == {<<1, 0>>, <<1>>}

\* the batches drawn: chunk_index is the position in the batch
IngestBatches ==
    UNION {{[i \in 1..n |-> [chunk_index |-> i - 1, embedding |-> e[i]]] :
              e \in [1..n -> ChunkEmbeddings]} : n \in 1..MaxBatch}

IngestRequests ==
    {[source_id |-> sid, replace_existing |-> r, chunks |-> b] :
        sid \in {"SRC-A", "NOT-EXIST"}, r \in BOOLEAN, b \in IngestBatches}

\* the rows of a batch, with the ids the sequence gives them
NewChunks(source_pk, chunks, next_chunk_id) ==
    {[id |-> next_chunk_id + i - 1, source_pk |-> source_pk,
      chunk_index |-> chunks[i].chunk_index, embedding |-> chunks[i].embedding] :
        i \in 1..Len(chunks)}

\* an ingest that deletes the source's chunks before it validates the batch
IngestOutcomeDeletesFirst(db, req) ==
    LET source == SourceOf(db.sources, req.source_id)
        source_pk == (CHOOSE s \in source : TRUE).id
        kept == IF req.replace_existing
                THEN {c \in db.chunks : c.source_pk /= source_pk}
                ELSE db.chunks
        call == [NoCall EXCEPT !.op = "ingest_chunks", !.request = req]
    IN IF source = {}
       THEN [db EXCEPT !.last = [call EXCEPT !.status = 404, !.error = "LookupError"]]
       ELSE IF \E i \in 1..Len(req.chunks) :
                  Len(req.chunks[i].embedding) /= EMBEDDING_DIM
       THEN [db EXCEPT !.chunks = kept,
                          !.last = [call EXCEPT !.status = 400, !.error = "ValueError"]]
       ELSE [db EXCEPT
               !.chunks = kept \cup NewChunks(source_pk, req.chunks, db.next_chunk_id),
               !.next_chunk_id = @ + Len(req.chunks),
               !.writes = @ + 1,
               !.last = [call EXCEPT !.status = 200]]

\* ingest_chunks and its route: the outcome of one request on a db
IngestOutcome(db, req) ==
    LET source == SourceOf(db.sources, req.source_id)
        source_pk == (CHOOSE s \in source : TRUE).id
        kept == IF req.replace_existing
                THEN {c \in db.chunks : c.source_pk /= source_pk}
                ELSE db.chunks
        call == [NoCall EXCEPT !.op = "ingest_chunks", !.request = req]
    IN IF source = {}
       THEN [db EXCEPT !.last = [call EXCEPT !.status = 404, !.error = "LookupError"]]
       ELSE IF \E i \in 1..Len(req.chunks) :
                  Len(req.chunks[i].embedding) /= EMBEDDING_DIM
       THEN [db EXCEPT !.last = [call EXCEPT !.status = 400, !.error = "ValueError"]]
       ELSE [db EXCEPT
               !.chunks = kept \cup NewChunks(source_pk, req.chunks, db.next_chunk_id),
               !.next_chunk_id = @ + Len(req.chunks),
               !.writes = @ + 1,
               !.last = [call EXCEPT !.status = 200]]

\* POST /api/v1/knowledge/chunks/batch
IngestChunks ==
    /\ kb.last.op = "none"
    /\ kb.writes < MaxStoreWrites
    /\ \E req \in IngestRequests : kb' = IngestOutcome(kb, req)
    /\ KnowledgeFrame

RECURSIVE DotFrom(_, _, _)
DotFrom(a, b, i) == IF i > Len(a) THEN 0 ELSE a[i] * b[i] + DotFrom(a, b, i + 1)

Dot(a, b) == DotFrom(a, b, 1)

\* the sign of cosine_distance(a, q) - cosine_distance(b, q), for non-zero
\* vectors: the distance is 1 - a.q / (|a| |q|), so the cosines a.q / |a| and
\* b.q / |b| are compared, by their signs and their squares
CosineDistanceCmp(a, b, q) ==
    LET x == Dot(a, q)
        y == Dot(b, q)
        left == x * x * Dot(b, b)
        right == y * y * Dot(a, a)
        cos_cmp == IF x >= 0 /\ y < 0 THEN 1
                   ELSE IF x < 0 /\ y >= 0 THEN -1
                   ELSE IF x >= 0
                   THEN (IF left > right THEN 1 ELSE IF left < right THEN -1 ELSE 0)
                   ELSE (IF left < right THEN 1 ELSE IF left > right THEN -1 ELSE 0)
    IN -cos_cmp

\* the joined rows that pass the filters of a request
FilteredRows(db, req) ==
    {row \in [chunk : db.chunks, source : db.sources] :
        /\ row.chunk.source_pk = row.source.id
        /\ (~req.include_inactive => row.source.is_active)
        /\ (Truthy(req.doc_type) => row.source.doc_type = req.doc_type)
        /\ (Truthy(req.city_code) => row.source.city_code = req.city_code)
        /\ (req.source_ids /= <<>> =>
               row.source.source_id \in SeqToSet(req.source_ids))}

\* ORDER BY source_id ASC, chunk_index ASC, id ASC
KeyBefore(r1, r2) ==
    LET s1 == SourceRank(r1.source.source_id)
        s2 == SourceRank(r2.source.source_id)
    IN \/ s1 < s2
       \/ s1 = s2 /\ r1.chunk.chunk_index < r2.chunk.chunk_index
       \/ s1 = s2 /\ r1.chunk.chunk_index = r2.chunk.chunk_index
                  /\ r1.chunk.id < r2.chunk.id

\* ORDER BY score ASC, source_id ASC, chunk_index ASC, id ASC
ScoreBefore(r1, r2, q) ==
    LET cmp == CosineDistanceCmp(r1.chunk.embedding, r2.chunk.embedding, q)
    IN cmp < 0 \/ (cmp = 0 /\ KeyBefore(r1, r2))

RECURSIVE OrderByKey(_)
OrderByKey(rows) ==
    IF rows = {} THEN <<>>
    ELSE LET first == CHOOSE r \in rows : \A o \in rows \ {r} : KeyBefore(r, o)
         IN <<first>> \o OrderByKey(rows \ {first})

RECURSIVE OrderByScore(_, _)
OrderByScore(rows, q) ==
    IF rows = {} THEN <<>>
    ELSE LET first == CHOOSE r \in rows : \A o \in rows \ {r} : ScoreBefore(r, o, q)
         IN <<first>> \o OrderByScore(rows \ {first}, q)

\* LIMIT n
Limit(rows, n) == SubSeq(rows, 1, Min2(n, Len(rows)))

\* a retrieval that orders by the key alone
RetrieveRowsByKey(db, req) ==
    Limit(OrderByKey(FilteredRows(db, req)), req.top_k)

\* retrieve with a query_embedding: the statement's rows
RetrieveRows(db, req) ==
    Limit(OrderByScore(FilteredRows(db, req), req.query_embedding),
          req.top_k)

RetrieveRequests ==
    {[query_embedding |-> q, top_k |-> k, doc_type |-> d, city_code |-> c,
      source_ids |-> ids, include_inactive |-> inactive] :
        q \in {<<1, 0>>, <<1, 2>>, <<1>>}, k \in 1..MaxTopK,
        d \in {NULL, "rule_explain"}, c \in {NULL, "310100"},
        ids \in {<<>>, <<"SRC-A", "SRC-C">>}, inactive \in BOOLEAN}

\* POST /api/v1/retrieve
Retrieve ==
    /\ kb.last.op = "none"
    /\ \E req \in RetrieveRequests :
         LET call == [NoCall EXCEPT !.op = "retrieve", !.request = req]
         IN kb' = [kb EXCEPT !.last =
                      IF Len(req.query_embedding) /= EMBEDDING_DIM
                      THEN [call EXCEPT !.status = 400, !.error = "ValueError"]
                      ELSE [call EXCEPT !.status = 200,
                                        !.items = RetrieveRows(kb, req)]]
    /\ KnowledgeFrame

\* the route returns its response
KnowledgeRespond ==
    /\ kb.last.op /= "none"
    /\ kb' = [kb EXCEPT !.last = NoCall]
    /\ KnowledgeFrame

\* ------------------------------------------------ the ReAct clarify agent's loop
\* _invoke_clarify_agent runs the graph of create_react_agent: an agent node
\* (one LLM call) and a tools node (the tool calls of the last AI message)
\* alternate until the AI message carries no tool call.  Every node run is
\* one step of the graph; the run is given recursion_limit steps and raises
\* GraphRecursionError when they are used up before the graph has ended.

\* ClarifyReactDebugRequest.max_rounds: ge=1 (le=8, default 3)
MaxRounds == 3

\* how many tool calls one AI message carries at most
MaxCallsPerMessage == 2

\* config={"recursion_limit": max(4, max_rounds * 2)}
RecursionLimit(max_rounds) == Max2(4, max_rounds * 2)

\* what a tool of build_clarify_react_tools answers
ReactToolResults ==
    {[tool |-> "lookup_order", hit |-> "hit"],
     [tool |-> "query_billing_rules_by_params", hit |-> "miss"]}

\* the last AI message of a run: text, or the JSON object of the prompt
ReactFinals ==
    {f \in AgentFinals :
        /\ f.slot_updates["order_no"] = NULL
        /\ f.resolved_intent = NULL}

\* the turn the gate is called for: no intent was found, nothing is in memory
ReactTurnParse ==
    IntentSlotParse(Request(NULL, NULL, <<>>, NULL, NULL),
                    CHOOSE llm \in LlmOutcomes : llm.kind = "error")

ReactTurnHydrate == SlotHydrate(ReactTurnParse, ReactTurnParse.payload, NoMemory)

NoReact ==
    [pc |-> "idle", max_rounds |-> 0, invocations |-> 0, steps |-> 0,
     pending |-> 0, parallel |-> 0, tool_results |-> <<>>,
     final |-> CHOOSE f \in AgentFinals : f.kind = "text",
     decision |-> NULL, clarify_error |-> NULL]

ReactIdle == react = NoReact

ReactFrame == UNCHANGED <<rvars, hvars, ovars, bill, kb>>

\* react_clarify_gate_async reaches _invoke_react_once, which awaits
\* run_clarify_task once
ReactInvoke ==
    /\ react.pc = "idle"
    /\ \E max_rounds \in 1..MaxRounds :
         react' = [react EXCEPT !.pc = "agent",
                                !.max_rounds = max_rounds,
                                !.invocations = @ + 1]
    /\ ReactFrame

\* agent node: the LLM answers with tool calls or with its last message
ReactAgentNode ==
    /\ react.pc = "agent"
    /\ react.steps < RecursionLimit(react.max_rounds)
    /\ \/ \E n \in 1..MaxCallsPerMessage :
            react' = [react EXCEPT !.steps = @ + 1, !.pending = n,
                                   !.pc = "tools"]
       \/ \E f \in ReactFinals :
            react' = [react EXCEPT !.steps = @ + 1, !.final = f,
                                   !.pc = "finished"]
    /\ ReactFrame

\* agent node: the LLM call raises (timeout_seconds=8, transport error)
ReactLlmRaises ==
    /\ react.pc = "agent"
    /\ react.steps < RecursionLimit(react.max_rounds)
    /\ react' = [react EXCEPT !.steps = @ + 1, !.pc = "raised"]
    /\ ReactFrame

\* tools node: the tool calls of the AI message run together and each
\* appends its tool message
ReactToolsNode ==
    /\ react.pc = "tools"
    /\ react.steps < RecursionLimit(react.max_rounds)
    /\ \E results \in [1..react.pending -> ReactToolResults] :
         react' = [react EXCEPT !.steps = @ + 1,
                                !.tool_results = @ \o results,
                                !.parallel = Max2(@, react.pending),
                                !.pending = 0,
                                !.pc = "agent"]
    /\ ReactFrame

\* the steps are used up and the graph has not ended: GraphRecursionError
ReactRecursionError ==
    /\ react.pc \in {"agent", "tools"}
    /\ react.steps >= RecursionLimit(react.max_rounds)
    /\ react' = [react EXCEPT !.pc = "raised"]
    /\ ReactFrame

\* the rest of react_clarify_gate_async: the fallback of _invoke_react_once
\* when the run raised, _normalize_react_result when it returned
ReactGateReturns ==
    /\ react.pc \in {"finished", "raised"}
    /\ \E env \in {[kind |-> IF react.pc = "raised" THEN "raise" ELSE "ok",
                      tool_results |-> IF react.pc = "raised" THEN <<>>
                                       ELSE react.tool_results,
                      final |-> react.final]} :
       \E gate \in {ReactClarifyGateAsync(ReactTurnParse, ReactTurnHydrate,
                                          NoMemory, <<>>, env).result} :
          react' = [react EXCEPT !.pc = "done",
                                 !.decision = gate.decision,
                                 !.clarify_error = gate.clarify_error]
    /\ ReactFrame

\* the turn's response is sent
ReactTurnEnds ==
    /\ react.pc = "done"
    /\ react' = NoReact
    /\ ReactFrame

NextReact ==
    \/ ReactInvoke
    \/ ReactAgentNode
    \/ ReactLlmRaises
    \/ ReactToolsNode
    \/ ReactRecursionError
    \/ ReactGateReturns
    \/ ReactTurnEnds

InitBilling ==
    /\ ResolverIdle /\ HybridIdle /\ OverlapIdle /\ BillingCalled /\ KnowledgeIdle
    /\ ReactIdle

NextBilling ==
    \/ BillingEmptyStay
    \/ BillingNormalize
    \/ BillingCollectSegment
    \/ BillingPrice

InitKnowledge ==
    /\ ResolverIdle /\ HybridIdle /\ OverlapIdle /\ BillingIdle /\ KnowledgeFilled
    /\ ReactIdle

NextKnowledge ==
    \/ UpsertSource
    \/ IngestChunks
    \/ Retrieve
    \/ KnowledgeRespond

Init ==
    /\ ResolverIdle /\ HybridIdle /\ OverlapIdle /\ BillingIdle /\ KnowledgeIdle
    /\ ReactIdle

Next ==
    \/ ReceiveRequest
    \/ IntentSlotParseStep
    \/ SlotHydrateStep
    \/ ReactClarifyGateStep
    \/ ResolverReturn

NextHybrid ==
    \/ HybridReceive
    \/ HybridMemoryHydrate
    \/ HybridMemoryClarify
    \/ HybridClassify
    \/ HybridRuleExplainFlow
    \/ HybridArrearsCheckFlow
    \/ HybridFeeVerifyFlow
    \/ HybridFeeVerifyFlowRaises
    \/ HybridRagRetrieve
    \/ HybridRagRetrieveFails
    \/ HybridSynthesize
    \/ HybridSynthesizeFails
    \/ HybridPersistFails
    \/ HybridCancel
    \/ HybridRespond
    \/ SessionExpires

NextDebug ==
    \/ DebugReceive
    \/ DebugClarifyReact
    \/ DebugPersist
    \/ DebugSessionExpires

Spec == Init /\ [][Next]_vars

SpecHybrid == Init /\ [][NextHybrid]_vars

SpecDebug == Init /\ [][NextDebug]_vars

SpecOverlap == Init /\ [][NextOverlap]_vars

SpecTurns == Init /\ [][NextTurns]_vars

SpecBilling == InitBilling /\ [][NextBilling]_vars

SpecKnowledge == InitKnowledge /\ [][NextKnowledge]_vars

\* One gate call that invokes the agent.  Every node of the run ends: the LLM
\* is built with timeout_seconds=8 and the tools' HTTP client with a timeout,
\* so a step that can be taken is taken.
SpecReact == Init /\ [][NextReact]_vars /\ WF_vars(NextReact)

\* ------------------------------------------------ properties of the gate
Returned == pc = "done" /\ react_result.kind = "returned"

AllPresent(slots, p) == \A i \in 1..Len(slots) : p[slots[i]] /= NULL

\* C1: a turn whose intent_hint is a valid intent and whose required slots are
\* all non-null after hydration ends with decision continue_business and
\* clarify_error null, and the ReAct agent was not invoked.
C1_PassWithoutReact ==
    (/\ pc = "done"
     /\ payload.intent_hint \in VALID_INTENTS
     /\ AllPresent(RequiredSlotsForIntent(payload.intent_hint), hydrate_result.payload))
    => /\ gate_result.decision = "continue_business"
       /\ gate_result.clarify_error = NULL
       /\ react_calls = 0
       /\ react_result.kind = "none"

\* C1 witness: a fee_verify turn whose order_no came from memory passes
C1_Witness ==
    /\ pc = "done"
    /\ payload.intent_hint = "fee_verify"
    /\ payload.order_no = NULL
    /\ parse_result.missing_required_slots = <<"order_no">>
    /\ hydrate_result.payload.order_no = "SCN-9"
    /\ gate_result.decision = "continue_business"
    /\ react_calls = 0

\* C2: when the intent is known and a required slot is still null after
\* hydration, the gate returns clarify_short_circuit with clarify_error
\* missing_order_no / missing_plate_no / missing_required_slots by the missing
\* slot, and the ReAct agent was not invoked.
C2_ShortCircuitKeyed ==
    (/\ pc = "done"
     /\ parse_result.intent /= NULL
     /\ ~AllPresent(RequiredSlotsForIntent(parse_result.intent), hydrate_result.payload))
    => /\ gate_result.decision = "clarify_short_circuit"
       /\ gate_result.clarify_error =
            (IF "order_no" \in SeqToSet(RequiredSlotsForIntent(parse_result.intent))
                /\ hydrate_result.payload.order_no = NULL
             THEN "missing_order_no"
             ELSE IF "plate_no" \in SeqToSet(RequiredSlotsForIntent(parse_result.intent))
                     /\ hydrate_result.payload.plate_no = NULL
             THEN "missing_plate_no"
             ELSE "missing_required_slots")
       /\ react_calls = 0
       /\ react_result.kind = "none"

\* C2 witness: arrears_check with memory that holds no plate_no
C2_Witness ==
    /\ pc = "done"
    /\ parse_result.intent = "arrears_check"
    /\ HasMemory(memory_state)
    /\ hydrate_result.payload.plate_no = NULL
    /\ gate_result.clarify_error = "missing_plate_no"
    /\ react_calls = 0

\* C4: when the agent returns continue_business with resolved_intent null the
\* gate returns clarify_react with clarify_error missing_intent.
C4_NullIntentNeverContinues ==
    (/\ Returned
     /\ react_result.result.decision = "continue_business"
     /\ react_result.result.resolved_intent = NULL)
    => /\ gate_result.decision = "clarify_react"
       /\ gate_result.clarify_error = "missing_intent"

\* C4, the diverging state: resolved_intent null, yet the gate continues
C4_Diverges ==
    /\ Returned
    /\ react_result.result.decision = "continue_business"
    /\ react_result.result.resolved_intent = NULL
    /\ gate_result.decision = "continue_business"

\* C5: when the agent returns continue_business with resolved_intent and
\* route_target both non-null and different, the gate returns clarify_react
\* with clarify_error intent_route_mismatch.
C5_RouteMismatch ==
    (/\ Returned
     /\ react_result.result.decision = "continue_business"
     /\ react_result.result.resolved_intent /= NULL
     /\ react_result.result.route_target /= NULL
     /\ react_result.result.resolved_intent /= react_result.result.route_target)
    => /\ gate_result.decision = "clarify_react"
       /\ gate_result.clarify_error = "intent_route_mismatch"

\* C5, the diverging state: a mismatch that the gate lets continue
C5_Diverges ==
    /\ Returned
    /\ react_result.result.decision = "continue_business"
    /\ react_result.result.resolved_intent = "arrears_check"
    /\ react_result.result.route_target = "rule_explain"
    /\ gate_result.decision = "continue_business"

\* C6: when the agent returns continue_business with a valid resolved_intent,
\* a route_target absent or equal to it and no required slot missing, the gate
\* returns continue_business with payload.intent_hint = resolved_intent.
C6_AcceptsResolvedIntent ==
    (/\ Returned
     /\ react_result.result.decision = "continue_business"
     /\ react_result.result.resolved_intent \in VALID_INTENTS
     /\ react_result.result.route_target \in {NULL, react_result.result.resolved_intent}
     /\ react_result.result.missing_required_slots = <<>>
     /\ AllPresent(RequiredSlotsForIntent(react_result.result.resolved_intent),
                   react_result.result.resolved_slots))
    => /\ gate_result.decision = "continue_business"
       /\ gate_result.payload.intent_hint = react_result.result.resolved_intent

\* C6, the diverging state: a complete fee_verify contract ends as clarify_react
C6_Diverges ==
    /\ Returned
    /\ react_result.result.decision = "continue_business"
    /\ react_result.result.resolved_intent = "fee_verify"
    /\ react_result.result.route_target = "fee_verify"
    /\ react_result.result.resolved_slots.order_no /= NULL
    /\ gate_result.decision = "clarify_react"
    /\ gate_result.clarify_error = "missing_intent"

\* C7: whenever the gate returns continue_business, payload.intent_hint is a
\* valid intent and every required slot of it is non-null in the payload.
C7_ContinueIsComplete ==
    (pc = "done" /\ gate_result.decision = "continue_business")
    => /\ gate_result.payload.intent_hint \in VALID_INTENTS
       /\ AllPresent(RequiredSlotsForIntent(gate_result.payload.intent_hint),
                     gate_result.payload)

\* C7, one diverging state: arrears_check inferred from a lookup_order hit
\* with no plate_no
C7_Diverges ==
    /\ Returned
    /\ gate_result.decision = "continue_business"
    /\ gate_result.payload.intent_hint = "arrears_check"
    /\ gate_result.payload.plate_no = NULL

\* C7, another: the parser took the intent from its LLM and the gate passed
\* without ReAct, intent_hint still null
C7_DivergesOnPass ==
    /\ pc = "done"
    /\ react_calls = 0
    /\ gate_result.decision = "continue_business"
    /\ gate_result.payload.intent_hint = NULL

\* C8: when the agent returns clarify_abort the gate returns clarify_abort
\* with clarify_error clarify_abort.
C8_AbortStaysAbort ==
    (Returned /\ react_result.result.decision = "clarify_abort")
    => /\ gate_result.decision = "clarify_abort"
       /\ gate_result.clarify_error = "clarify_abort"

\* C8, the diverging state: an abort that ends as clarify_react
C8_Diverges ==
    /\ Returned
    /\ react_result.result.decision = "clarify_abort"
    /\ gate_result.decision = "clarify_react"
    /\ gate_result.clarify_error = "missing_intent"

\* C9: when the agent raises, the gate still returns: clarify_short_circuit
\* with clarify_error clarify_fallback and the hydrated payload unchanged.
C9_FallbackOnRaise ==
    (react_result.kind = "raised")
    => /\ pc = "done"
       /\ gate_result.decision = "clarify_short_circuit"
       /\ gate_result.clarify_error = "clarify_fallback"
       /\ gate_result.payload = hydrate_result.payload

\* C9 witness: the agent raised on a turn whose payload hydration had changed
C9_Witness ==
    /\ pc = "done"
    /\ react_result.kind = "raised"
    /\ react_calls = 1
    /\ hydrate_result.payload /= payload
    /\ gate_result.clarify_error = "clarify_fallback"

\* ------------------------------------------------ properties of the hybrid turn
BusinessCalls ==
    {"GET /api/v1/arrears-orders", "GET /api/v1/parking-orders/{order_no}",
     "POST /api/v1/billing-rules/simulate", "retrieve"}

\* The resolver's verdict on the turn in flight, for a turn whose intent_hint
\* is a valid intent: the parser then takes the deterministic path and the
\* gate never reaches ReAct, so the verdict depends on the request and the
\* memory alone.
TurnParse == IntentSlotParseDeterministic(hreq)
TurnHydrate == SlotHydrate(TurnParse, TurnParse.payload, hmem)
TurnGate ==
    ReactClarifyGateAsync(TurnParse, TurnHydrate, hmem, <<>>,
                          CHOOSE e \in AgentEnvs : e.kind = "raise").result

\* C3: a hybrid turn whose gate decision is not continue_business calls no
\* business API and no knowledge retrieval.
C3_NoToolsUnlessContinue ==
    (/\ hpc \notin {"idle", "memory"}
     /\ hreq.intent_hint \in VALID_INTENTS
     /\ TurnGate.decision /= "continue_business")
    => \A i \in 1..Len(calls) : calls[i] \notin BusinessCalls

\* C3, the diverging state: arrears_check without plate_no, for which the gate
\* short-circuits, has called the arrears API
C3_Diverges ==
    /\ hpc = "answer_synthesizer"
    /\ hreq.intent_hint = "arrears_check"
    /\ hpayload.plate_no = NULL
    /\ TurnGate.clarify_error = "missing_plate_no"
    /\ calls = <<"GET /api/v1/arrears-orders">>

\* C10: an order reference without an order_no never ends the turn with a
\* clarification sent straight to the user; when the intent is known and no
\* required slot is missing, the turn goes on to business.
C10_AmbiguityNotToUser ==
    (/\ hpc = "done"
     /\ hreq.order_no = NULL
     /\ WantsOrderReference(hreq.query))
    => /\ hresult.business_facts.error /= "order_reference_ambiguous"
       /\ (/\ hreq.intent_hint \in VALID_INTENTS
           /\ TurnGate.decision = "continue_business")
          => hresult.conclusion = "answer"

\* C10, the diverging state: arrears_check with its plate_no, a reference to
\* "this order" and two remembered candidates is answered with a clarification
C10_Diverges ==
    /\ hpc = "done"
    /\ hreq.intent_hint = "arrears_check"
    /\ hreq.plate_no = "P1"
    /\ hreq.query = <<"zhebi">>
    /\ hresult.business_facts.error = "order_reference_ambiguous"
    /\ hmem.order_candidates = <<"SCN-1", "SCN-2">>
    /\ TurnGate.decision = "continue_business"
    /\ calls = <<>>

\* ------------------------------------------------ session memory claims
\* the turn has read its memory and has not written yet
InFlight ==
    hpc \in {"classify", "rule_explain_flow", "arrears_check_flow",
             "fee_verify_flow", "rag_retrieve", "answer_synthesizer"}

\* the state stored under session s, expired or not
StoredState(s) == IF store[s] = None THEN NoMemory ELSE store[s][1].state

\* C11: session isolation.  What a turn of session B reads and hydrates is
\* determined by the entry stored under B alone (never by anything written
\* under another session_id), and a turn writes no entry but its own: the
\* memory a turn holds is the state stored under its own session_id (none
\* for a turn without session_id), its payload is the request hydrated from
\* that memory, and an entry changes only in a turn of its own session or
\* by its own expiry.
C11_ReadsOwnEntry ==
    InFlight =>
        IF SessionRead
        THEN /\ hmem = StoredState(hreq.session_id)
             /\ hpayload = ApplyMemoryHydrate(hreq, hmem).payload
             /\ hresult.memory_trace = ApplyMemoryHydrate(hreq, hmem).traces
        ELSE hmem = NoMemory /\ hpayload = hreq /\ hresult.memory_trace = <<>>

C11_WritesOwnEntry ==
    \A s \in Sessions :
        store'[s] /= store[s] =>
            IF hpc = "idle"
            THEN /\ store[s] /= None
                 /\ store'[s] = Some([store[s][1] EXCEPT !.expired = TRUE])
            ELSE hreq.session_id = s

Completed == hpc = "done" /\ SessionRead

\* the completed turn asked the user to clarify instead of answering
AskedToClarify == hresult.business_facts.error = "order_reference_ambiguous"

\* C12: after a completed turn with a session_id, the stored state holds
\* neither pending_clarification nor clarify_messages when the turn's decision
\* was continue_business, and holds pending_clarification when the turn ended
\* with a clarifying decision.
C12_PendingTracksDecision ==
    Completed =>
        LET keys == DOMAIN StoredState(hreq.session_id)
        IN IF AskedToClarify
           THEN "pending_clarification" \in keys
           ELSE keys \cap {"pending_clarification", "clarify_messages"} = {}

\* a turn that ended by asking which order is meant stored no
\* pending_clarification
C12_Diverges ==
    /\ Completed
    /\ AskedToClarify
    /\ hresult.conclusion = "order_reference_clarify"
    /\ store[hreq.session_id] /= None
    /\ "pending_clarification" \notin DOMAIN StoredState(hreq.session_id)

\* C13: within a session's TTL a stored slot that holds a non-null value is
\* never removed or replaced by null by a later write, and a write of a turn
\* that ends without a value for the slot leaves the stored value as it was.
C13_SlotsKeptByWrite ==
    \A s \in Sessions :
        (/\ pc = "done"
         /\ payload.session_id = s
         /\ store[s] /= None
         /\ ~store[s][1].expired) =>
            /\ store'[s] /= None
            /\ "slots" \in DOMAIN store'[s][1].state
            /\ \A k \in SlotKeySet :
                 LET before == store[s][1].state.slots[k]
                     after == store'[s][1].state.slots[k]
                 IN /\ before /= NULL => after /= NULL
                    /\ gate_result.payload[k] = NULL => after = before

Expired(s) == store[s] /= None /\ store[s][1].expired

\* C14: once a session's TTL has elapsed since its last write, get_session
\* returns no state for it, at every later time until the next save_session
\* (the write of a completing turn of that session), and a turn that arrives
\* after the expiry hydrates nothing from the earlier state.
C14_ExpiredIsUnobservable ==
    \A s \in Sessions : Expired(s) => GetSession(store, s) = NoMemory

C14_ExpiredUntilPut ==
    \A s \in Sessions :
        (Expired(s) \/ store[s] = None) /\ GetSession(store', s) /= NoMemory =>
            /\ hpc' = "done"
            /\ hreq.session_id = s
            /\ store'[s] = Some([expired |-> FALSE,
                                 state |-> PersistedState(hpayload', hresult', hmem')])

C14_TurnAfterExpiry ==
    (hpc = "memory" /\ SessionRead /\ Expired(hreq.session_id)
     /\ hpc' /= "cancelled") =>
        /\ hpc' = "classify"
        /\ hmem' = NoMemory
        /\ hpayload' = hreq
        /\ hresult'.memory_trace = <<"memory_hydrate:none">>
        /\ store'[hreq.session_id] = None

C14_NothingAfterTtl ==
    /\ [](C14_ExpiredIsUnobservable)
    /\ [][C14_ExpiredUntilPut /\ C14_TurnAfterExpiry]_vars

\* a turn without plate_no arrives on a session whose entry, holding a
\* plate_no, has expired: get_session returns nothing
C14_Witness ==
    /\ hpc = "memory"
    /\ SessionRead
    /\ hreq.plate_no = NULL
    /\ Expired(hreq.session_id)
    /\ store[hreq.session_id][1].state.slots["plate_no"] = "P1"
    /\ GetSession(store, hreq.session_id) = NoMemory

\* C15: a turn with a session_id reads the session's memory exactly once, at
\* entry, and writes it at most once, at exit, as a replacement of the whole
\* state; when turns of one session overlap, the state stored afterwards is
\* exactly the state written by the turn whose write happened last, built
\* from that turn's own read and result.
C15_ReadOnceWriteOnce ==
    \A t \in TurnIds :
        /\ turn[t].reads = (IF turn[t].pc \in {"idle", "memory"} THEN 0 ELSE 1)
        /\ turn[t].writes = (IF turn[t].pc = "done" THEN 1 ELSE 0)

C15_StoredIsLastWrite ==
    \A s \in Sessions :
        IF last_writer[s] = 0 THEN store[s] = None
        ELSE LET w == turn[last_writer[s]]
             IN /\ w.pc = "done"
                /\ w.req.session_id = s
                /\ store[s] = Some([expired |-> FALSE,
                                    state |-> PersistedState(w.payload, w.result, w.mem)])

C15_LastWriterWins == C15_ReadOnceWriteOnce /\ C15_StoredIsLastWrite

\* two turns of session A overlapped: both read no memory, both wrote, and
\* the stored state holds the later writer's turn alone
C15_Witness ==
    /\ turn[1].pc = "done" /\ turn[2].pc = "done"
    /\ turn[1].req.session_id = "A" /\ turn[2].req.session_id = "A"
    /\ turn[1].mem = NoMemory /\ turn[2].mem = NoMemory
    /\ turn[1].req.query /= turn[2].req.query
    /\ last_writer["A"] = 2
    /\ Len(store["A"][1].state.turns) = 1
    /\ store["A"][1].state.turns[1].query = turn[2].req.query

\* C16: a turn that is cancelled at a suspension point (the memory read, an
\* LLM call, a business tool call, the retrieval) leaves the session memory
\* exactly as it was before the turn started: no step of a turn but its
\* completion changes what get_session returns for any session, and what a
\* cancelled turn had read at entry is what its session still holds.
C16_OnlyCompletionWrites ==
    ((hpc /= "idle" \/ hpc' /= "idle") /\ hpc' /= "done") =>
        \A s \in Sessions : GetSession(store', s) = GetSession(store, s)

C16_CancelledLeftNoTrace ==
    (hpc = "cancelled" /\ SessionRead) =>
        \/ GetSession(store, hreq.session_id) = hmem
        \/ hmem = NoMemory /\ calls = <<>>

C16_CancelLeavesMemory ==
    [](C16_CancelledLeftNoTrace) /\ [][C16_OnlyCompletionWrites]_vars

\* a turn of a session with stored memory was cancelled after its business
\* API call; the session still holds what the turn had read
C16_Witness ==
    /\ hpc = "cancelled"
    /\ SessionRead
    /\ "GET /api/v1/arrears-orders" \in SeqToSet(calls)
    /\ HasMemory(hmem)
    /\ store[hreq.session_id] = Some([expired |-> FALSE, state |-> hmem])

\* the turns stored for the session of SequentialTurn
StoredTurns == StoredState(TurnsSession).turns

StoredClarifyMessages(s) == MemGet(StoredState(s), "clarify_messages", <<>>)

OrderCarryTraces ==
    {"memory_hydrate:order_no_from_reference",
     "memory_hydrate:order_no_from_single_candidate"}

\* a fee_verify turn without order_no has completed on a session whose last
\* turn was an arrears_check that listed an order
FeeVerifyAfterArrears ==
    /\ Completed
    /\ hreq.order_no = NULL
    /\ hresult.intent = "fee_verify"
    /\ HasMemory(hmem)
    /\ hmem.last_intent = "arrears_check"
    /\ hmem.order_candidates /= <<>>

\* C19: after an arrears_check turn that listed an order, a following
\* fee_verify turn that carries no order_no (even if its query says 'this
\* order') is not given an order_no from memory: it ends with
\* business_facts.error = missing_order_no and its trace has no entry
\* containing memory_hydrate:order_no.
C19_NoOrderCarry ==
    FeeVerifyAfterArrears =>
        /\ hpayload.order_no = NULL
        /\ hresult.business_facts.error = "missing_order_no"
        /\ SeqToSet(hresult.trace) \cap OrderCarryTraces = {}

\* the turn said 'this order', was given the listed order's number from
\* memory and verified that order
C19_Diverges ==
    /\ FeeVerifyAfterArrears
    /\ hreq.query = <<"zhebi">>
    /\ hmem.order_candidates = <<"SCN-1">>
    /\ hpayload.order_no = "SCN-1"
    /\ SeqToSet(hresult.trace) \cap OrderCarryTraces /= {}
    /\ hresult.business_facts.order_no = "SCN-1"
    /\ "GET /api/v1/parking-orders/{order_no}" \in SeqToSet(calls)

\* the workflow has reached answer_synthesizer, or has run it
AtSynthesizer ==
    \/ hpc = "answer_synthesizer"
    \/ hpc = "done" /\ hresult.business_facts.error /= "order_reference_ambiguous"

\* C20: in every workflow run, the arrears_check branch reaches
\* answer_synthesizer without calling retrieve (retrieved_count = 0), and the
\* fee_verify and rule_explain branches call retrieve before
\* answer_synthesizer, also when the fee tool returned an error fact.
C20_RetrieveByBranch ==
    AtSynthesizer =>
        IF hresult.intent = "arrears_check"
        THEN /\ "retrieve" \notin SeqToSet(calls)
             /\ hresult.retrieved_count = 0
             /\ "arrears_check_flow" \in SeqToSet(hresult.trace)
        ELSE /\ hresult.intent \in {"fee_verify", "rule_explain"}
             /\ "retrieve" \in SeqToSet(calls)
             /\ "llm:answer" \notin SeqToSet(SubSeq(calls, 1,
                    CHOOSE i \in 1..Len(calls) : calls[i] = "retrieve"))

\* the fee tool returned an error fact, and the workflow is at
\* answer_synthesizer after a retrieval
C20_Witness ==
    /\ hpc = "answer_synthesizer"
    /\ hresult.intent = "fee_verify"
    /\ hresult.business_facts.error = "order_tool_http_error"
    /\ calls[Len(calls)] = "retrieve"
    /\ "rag_retrieve:1" \in SeqToSet(hresult.trace)

\* the workflow was entered without a valid intent in the payload it was given
NoIntentContract == hpayload.intent_hint \notin VALID_INTENTS

\* C21: when the workflow is entered with a continue_business decision but
\* without a valid resolved intent, it does not fall back to a guessed or
\* default intent: it skips the tool branches and the retrieval, goes to the
\* synthesizer with business_facts.error = missing_intent_contract and
\* records the trace tag intent_router:missing_intent_contract.
C21_NoIntentFallback ==
    (AtSynthesizer /\ NoIntentContract) =>
        /\ hresult.business_facts.error = "missing_intent_contract"
        /\ "intent_router:missing_intent_contract" \in SeqToSet(hresult.trace)
        /\ calls = <<>>
        /\ hresult.retrieved_count = 0

\* no intent was given, the classifier's LLM failed, the rule route chose
\* rule_explain by default and the retrieval ran
C21_Diverges ==
    /\ hpc = "answer_synthesizer"
    /\ NoIntentContract
    /\ hreq.query = <<>>
    /\ hresult.intent = "rule_explain"
    /\ hresult.business_facts.error = NULL
    /\ "intent_classifier:rule_explain" \in SeqToSet(hresult.trace)
    /\ calls = <<"llm:intent", "retrieve">>

\* the nodes that call the business API
ToolFlows == {"arrears_check_flow", "fee_verify_flow"}

\* C22: every failure of a business API call (arrears lookup, parking-order
\* lookup, simulate call) becomes an error value in business_facts and the
\* workflow goes on towards answer_synthesizer; no tool failure leaves the
\* workflow as an exception.
C22_ToolFailuresBecomeFacts ==
    [][(hpc \in ToolFlows /\ hpc' /= hpc)
          => hpc' \in {"rag_retrieve", "answer_synthesizer", "cancelled"}]_vars

\* a fee_verify turn that read its order and then ended as an exception at the
\* simulate call, before the flow recorded anything
C22_Diverges ==
    /\ hpc = "failed"
    /\ hresult.intent = "fee_verify"
    /\ "fee_verify_flow" \notin SeqToSet(hresult.trace)
    /\ hresult.business_facts = NoFacts
    /\ calls /= <<>>
    /\ calls[Len(calls)] = "GET /api/v1/parking-orders/{order_no}"

\* C23: when the session-memory write at the end of a turn fails, the turn
\* still returns its normal response: every step that synthesizes the answer
\* completes the turn, whatever the write does.
C23_WriteFailureNotPropagated ==
    [][(hpc = "answer_synthesizer" /\ hresult'.conclusion /= NULL)
          => hpc' = "done"]_vars

\* a turn whose answer was synthesized and whose memory write raised: it
\* ended as an exception and the session holds what it held before
C23_Diverges ==
    /\ hpc = "failed"
    /\ hresult.conclusion = "answer"
    /\ "memory_persist" \in SeqToSet(hresult.trace)
    /\ Truthy(hpayload.session_id)
    /\ store[hpayload.session_id] = None

\* ------------------------------------------------ properties of the billing engine
\* the minute points of the stay: entry, entry + 1 minute, ... before exit
Stay ==
    {bill.entry_time + k * SecondsPerMinute :
        k \in 0..((bill.exit_time - 1 - bill.entry_time) \div SecondsPerMinute)}

InIntervals(p, intervals) ==
    \E i \in 1..Len(intervals) : intervals[i][1] <= p /\ p < intervals[i][2]

\* the segments whose minutes include minute p
CountingSegments(p) == {i \in 1..Len(bill.payload) : InIntervals(p, bill.active[i])}

\* the segments whose window, weekdays and zone match minute p
MatchingSegments(p) ==
    {i \in 1..Len(bill.payload) : ItemMatches(p, bill.payload[i], bill.aware)}

Collected == bill.pc = "price"

\* C24: every minute of [entry, exit) is counted in the minutes of at most one
\* segment, and where several segments match a minute only the earliest one in
\* payload order counts it; a segment's minutes are the minutes it counts.
C24_EarliestSegmentCounts ==
    Collected =>
        /\ \A p \in Stay :
              LET matching == MatchingSegments(p)
              IN CountingSegments(p) =
                    IF matching = {} THEN {}
                    ELSE {CHOOSE i \in matching : \A j \in matching : i <= j}
        /\ \A i \in 1..Len(bill.payload) :
              bill.segment_minutes[i] =
                  Cardinality({p \in Stay : InIntervals(p, bill.active[i])})

\* a collected stay of zone-aware times in which a minute matches two segments
\* of different zones, the first of them limited to weekdays and wrapping past
\* midnight, and the second segment still counts other minutes
C24_Witness ==
    /\ Collected
    /\ Len(bill.payload) = 2
    /\ bill.aware
    /\ ResolveWindowTimezone(bill.payload[1]) /= ResolveWindowTimezone(bill.payload[2])
    /\ bill.payload[1].weekdays /= {}
    /\ bill.payload[1].time_window /= None
    /\ \E p \in Stay : MatchingSegments(p) = {1, 2}
    /\ bill.segment_minutes[1] > 0
    /\ bill.segment_minutes[2] > 0

BillDone == bill.pc = "done" /\ bill.exit_time > bill.entry_time

Entries == {bill.breakdown[i] : i \in 1..Len(bill.breakdown)}

\* C25: total_amount is the sum of the breakdown amounts, and each breakdown
\* amount is the segment's amount rounded to two decimals, ties going up.
C25_TotalIsSumOfRounded ==
    BillDone =>
        /\ bill.total_amount = SumAmounts(bill.breakdown)
        /\ \A e \in Entries :
              /\ e.amount % 10 = 0
              /\ e.amount - e.raw_amount \in -4..5

\* a priced stay with two segments, one of whose amounts was a tie
C25_Witness ==
    /\ BillDone
    /\ Len(bill.breakdown) = 2
    /\ \E e \in Entries : e.raw_amount % 10 = 5 /\ e.amount = e.raw_amount + 5

\* the stay of test_periodic_billing_across_days
CapExample ==
    /\ Len(bill.payload) = 1
    /\ bill.payload[1].name = "day_periodic"
    /\ bill.entry_time = At(Feb1, 9, 0)
    /\ bill.exit_time = At(Feb1 + 2, 15, 10)
    /\ ~bill.aware

\* C26: the cap of a periodic or tiered segment is applied to each local-date
\* bucket of the segment's zone on its own: a bucket holds the segment's
\* minutes of one local date, no bucket is charged more than max_charge, the
\* segment is charged the sum of its buckets, so up to k times max_charge for
\* k dates; the example stay (08:00-20:00, 30-minute units at 2, cap 20,
\* Day1 09:00 to Day3 15:10) costs 60.00, each of its three days capped at 20.
C26_CapPerLocalDate ==
    BillDone =>
        /\ \A e \in Entries :
              e.segment_type \in {"periodic", "tiered"} =>
                /\ e.raw_amount = SumDayAmounts(e.days)
                /\ \A i, j \in 1..Len(e.days) : i /= j => e.days[i].day /= e.days[j].day
                /\ \A i \in 1..Len(e.days) :
                      /\ e.item.max_charge /= None =>
                            e.days[i].day_amount <= e.item.max_charge[1]
                      /\ e.days[i].capped <=>
                            /\ e.item.max_charge /= None
                            /\ e.days[i].day_amount = e.item.max_charge[1]
                /\ e.item.max_charge /= None =>
                      e.raw_amount <= Len(e.days) * e.item.max_charge[1]
        /\ CapExample =>
              /\ bill.total_amount = 60000
              /\ Len(bill.breakdown[1].days) = 3
              /\ \A i \in 1..3 :
                    /\ bill.breakdown[1].days[i].capped
                    /\ bill.breakdown[1].days[i].day_amount = 20000
                    /\ bill.breakdown[1].days[i].day = Feb1 + i - 1

C26_Witness ==
    /\ BillDone
    /\ CapExample
    /\ bill.breakdown[1].minutes = 1810
    /\ bill.breakdown[1].capped

\* C27: a segment's free_minutes are used up once over the stay, day by day
\* in local-date order: the first day starts with free_minutes, each day's
\* chargeable minutes are max(0, day_minutes - remaining_free), what is left
\* goes to the next day, and the free minutes deducted over the stay never
\* exceed free_minutes.
C27_FreeMinutesOnce ==
    BillDone =>
        \A e \in Entries :
            e.segment_type \in {"periodic", "tiered"} =>
              LET n == Len(e.days)
                  Deducted(i) == e.days[i].day_minutes - e.days[i].day_chargeable_minutes
                  deducted == SumMinutes([i \in 1..n |-> [minutes |-> Deducted(i)]])
              IN /\ n > 0 => e.days[1].remaining_free = e.item.free_minutes
                 /\ \A i \in 1..n :
                       e.days[i].day_chargeable_minutes =
                           Max2(0, e.days[i].day_minutes - e.days[i].remaining_free)
                 /\ \A i \in 1..(n - 1) :
                       /\ e.days[i].day < e.days[i + 1].day
                       /\ e.days[i + 1].remaining_free =
                              Max2(0, e.days[i].remaining_free - e.days[i].day_minutes)
                 /\ deducted <= e.item.free_minutes
                 /\ deducted = Min2(e.item.free_minutes, e.minutes)

\* a priced segment whose first day is shorter than its free minutes, so that
\* the rest of the free minutes is used on the second day
C27_Witness ==
    /\ BillDone
    /\ \E e \in Entries :
          /\ Len(e.days) >= 2
          /\ e.days[1].day_minutes < e.item.free_minutes
          /\ e.days[2].remaining_free = e.item.free_minutes - e.days[1].day_minutes
          /\ e.days[2].day_chargeable_minutes < e.days[2].day_minutes

\* the amount of thousandths v rounded to hundredths, a tie going up
HalfUpHundredths(v) == CHOOSE r \in 0..(v \div 10 + 1) : r * 10 - v \in -4..5

\* the workflow holds the facts of a fee verification that compared amounts
AmountsCompared ==
    /\ hpc \in {"rag_retrieve", "answer_synthesizer", "done"}
    /\ hresult.business_facts.amount_check_result /= NULL

IngestStep == kb.last.op = "none" /\ kb'.last.op = "ingest_chunks"

BadDim(chunks) ==
    \E i \in 1..Len(chunks) : Len(chunks[i].embedding) /= EMBEDDING_DIM

\* C29: an ingest for an unknown source_id fails with a lookup error, an
\* ingest of a batch holding a chunk whose embedding has not the configured
\* length fails with a validation error, and in both cases the stored chunks
\* are what they were, with replace_existing too.
C29_FailedIngestKeepsChunks ==
    [][IngestStep =>
          LET req == kb'.last.request
              unknown == SourceOf(kb.sources, req.source_id) = {}
          IN /\ unknown => kb'.last.error = "LookupError" /\ kb'.last.status = 404
             /\ (~unknown /\ BadDim(req.chunks)) =>
                   kb'.last.error = "ValueError" /\ kb'.last.status = 400
             /\ (unknown \/ BadDim(req.chunks)) =>
                   /\ kb'.chunks = kb.chunks
                   /\ kb'.next_chunk_id = kb.next_chunk_id
             /\ (~unknown /\ ~BadDim(req.chunks)) => kb'.last.error = NULL]_vars

\* a batch with one good and one bad embedding was refused with
\* replace_existing set, and the source's earlier chunks are still stored
C29_Witness ==
    /\ kb.last.op = "ingest_chunks"
    /\ kb.last.error = "ValueError"
    /\ kb.last.request.replace_existing
    /\ Len(kb.last.request.chunks) = 2
    /\ Len(kb.last.request.chunks[1].embedding) = EMBEDDING_DIM
    /\ Len(kb.last.request.chunks[2].embedding) /= EMBEDDING_DIM
    /\ \E s \in SourceOf(kb.sources, kb.last.request.source_id) :
          \E c \in kb.chunks : c.source_pk = s.id

Retrieved == kb.last.op = "retrieve" /\ kb.last.status = 200

\* C30: with a query_embedding the items come in non-decreasing cosine
\* distance to it, equal distances in the order of (source_id, chunk_index,
\* id), and they are the top_k closest of the chunks that pass the filters.
C30_ClosestFirst ==
    Retrieved =>
        LET req == kb.last.request
            q == req.query_embedding
            items == kb.last.items
            passing == FilteredRows(kb, req)
            returned == SeqToSet(items)
            Distance(r1, r2) == CosineDistanceCmp(r1.chunk.embedding, r2.chunk.embedding, q)
        IN /\ returned \subseteq passing
           /\ Len(items) = Min2(req.top_k, Cardinality(passing))
           /\ Cardinality(returned) = Len(items)
           /\ \A i \in 1..(Len(items) - 1) :
                 \/ Distance(items[i], items[i + 1]) < 0
                 \/ /\ Distance(items[i], items[i + 1]) = 0
                    /\ KeyBefore(items[i], items[i + 1])
           /\ \A r \in passing \ returned :
                 \A i \in 1..Len(items) :
                    \/ Distance(items[i], r) < 0
                    \/ Distance(items[i], r) = 0 /\ KeyBefore(items[i], r)

\* a retrieval that returned two chunks at the same distance, ordered by
\* their key, and left out a chunk that passed the filters
C30_Witness ==
    /\ Retrieved
    /\ Len(kb.last.items) = 2
    /\ CosineDistanceCmp(kb.last.items[1].chunk.embedding,
                         kb.last.items[2].chunk.embedding,
                         kb.last.request.query_embedding) = 0
    /\ kb.last.items[1].chunk.id > kb.last.items[2].chunk.id
    /\ FilteredRows(kb, kb.last.request) \ SeqToSet(kb.last.items) /= {}

\* ------------------------------------------------ properties of the fee-verify tool calls

\* the node fee_verify_flow returns facts in this step
FeeVerifyFactsBuilt ==
    /\ hpc = "fee_verify_flow"
    /\ hpc' /= "failed"
    /\ hresult'.business_facts.intent = "fee_verify"

Hydrated == pc \in {"gate", "done"}

\* C32: SlotHydrator never changes a slot the user supplied in the current
\* request: every slot whose source is user holds the request's value in the
\* hydrated payload whatever the session memory contains, and a slot the
\* hydrator changed was null before and now holds the memory's value.
C32_HydrateKeepsUserSlots ==
    Hydrated =>
        \A k \in SlotKeySet :
            /\ parse_result.field_sources[k] = "user"
                   => /\ hydrate_result.payload[k] = payload[k]
                      /\ hydrate_result.field_sources[k] = "user"
            /\ hydrate_result.payload[k] /= parse_result.payload[k]
                   => /\ parse_result.payload[k] = NULL
                      /\ HasMemory(memory_state)
                      /\ hydrate_result.payload[k] = memory_state.slots[k]
                      /\ hydrate_result.field_sources[k] = "memory"

\* the user gave a plate number, the memory holds another plate number and a
\* city: the plate number is the user's, the city came from memory
C32_Witness ==
    /\ Hydrated
    /\ payload.plate_no = "P1"
    /\ HasMemory(memory_state)
    /\ memory_state.slots["plate_no"] = "P9"
    /\ hydrate_result.payload.plate_no = "P1"
    /\ hydrate_result.payload.city_code = "C9"
    /\ hydrate_result.field_sources["city_code"] = "memory"

\* the resolver turn has run _intent_slot_parse
Parsed == pc \in {"hydrate", "gate", "done"}

\* the parser merged an LLM answer
LlmMerged == Parsed /\ "intent_slot_parse:llm" \in SeqToSet(parse_result.trace)

\* the slot values an LLM answer can carry for slot k
LlmValues(k) ==
    {llm.slots[k] : llm \in {o \in LlmOutcomes : o.kind = "json"}} \ {NULL}

\* C33: in the parser's LLM augmentation a slot returned by the LLM is written
\* only if that slot is still null, and is then recorded with source
\* inferred; a slot already set by the user keeps its value and its source.
C33_LlmFillsOnlyNullSlots ==
    LlmMerged =>
        \A k \in LLM_SLOT_KEYS :
            LET before == IntentSlotParseDeterministic(payload)
            IN /\ parse_result.payload[k] /= before.payload[k]
                      => /\ before.payload[k] = NULL
                         /\ parse_result.payload[k] \in LlmValues(k)
                         /\ parse_result.field_sources[k] = "inferred"
               /\ payload[k] /= NULL
                      => /\ parse_result.payload[k] = payload[k]
                         /\ parse_result.field_sources[k] = "user"

\* the LLM's order number filled the null slot while the plate number the
\* user gave stayed
C33_Witness ==
    /\ LlmMerged
    /\ payload.order_no = NULL
    /\ payload.plate_no = "P1"
    /\ parse_result.payload.order_no = "SCN-3"
    /\ parse_result.field_sources["order_no"] = "inferred"
    /\ parse_result.payload.plate_no = "P1"
    /\ parse_result.field_sources["plate_no"] = "user"

LlmFallbackTags ==
    {"intent_slot_parse:llm_error_fallback",
     "intent_slot_parse:llm_invalid_json_fallback"}

\* the parser called the LLM and did not merge an answer: the call raised or
\* its text was not JSON
LlmFailed ==
    /\ Parsed
    /\ IntentSlotParseDeterministic(payload).intent \notin VALID_INTENTS
    /\ ~LlmMerged

\* C34: if the parser's LLM call raises, or returns text that is not valid
\* JSON, the parse result equals the deterministic-pass result (same intent,
\* slots and ambiguities) with exactly one fallback tag appended to the
\* trace, and the turn goes on (no exception is raised).
C34_LlmFailureFallsBack ==
    LlmFailed =>
        LET before == IntentSlotParseDeterministic(payload)
        IN /\ parse_result.intent = before.intent
           /\ parse_result.payload = before.payload
           /\ parse_result.field_sources = before.field_sources
           /\ parse_result.missing_required_slots = before.missing_required_slots
           /\ parse_result.ambiguities = before.ambiguities
           /\ \E tag \in LlmFallbackTags :
                  parse_result.trace = Append(before.trace, tag)

\* the LLM call raised on a request whose query refers to "this order" and
\* carries an order number: the deterministic findings are all there
C34_Witness ==
    /\ LlmFailed
    /\ payload.order_no = NULL
    /\ parse_result.payload.order_no /= NULL
    /\ parse_result.field_sources["order_no"] = "inferred"
    /\ parse_result.trace[Len(parse_result.trace)] =
           "intent_slot_parse:llm_error_fallback"
    /\ pc = "done"

\* the LLM's text was not JSON and the query was ambiguous about the order
C34_WitnessInvalidJson ==
    /\ LlmFailed
    /\ parse_result.ambiguities = <<"order_reference">>
    /\ parse_result.trace[Len(parse_result.trace)] =
           "intent_slot_parse:llm_invalid_json_fallback"

\* ------------------------------------------------ properties of the ReAct agent's result

\* the required slots the agent was given and, of those, the ones its
\* resolved slots leave empty
AgentRequiredSlots == ReactRequiredSlots(parse_result, required_slots_override)

AgentMissing ==
    {k \in SeqToSet(AgentRequiredSlots) :
        ~Truthy(react_result.result.resolved_slots[k])}

AgentSaidFinish ==
    react_result.final.kind = "json" /\ react_result.final.action = "finish_clarify"

\* C35: the ReAct agent's result is continue_business only if its final
\* action is finish_clarify and no required slot is missing from the resolved
\* slots; a finish_clarify issued while a required slot is still missing is
\* downgraded to ask_user, giving decision clarify_react.
C35_FinishNeedsAllSlots ==
    Returned =>
        /\ react_result.result.decision = "continue_business"
               => AgentSaidFinish /\ AgentMissing = {}
        /\ AgentSaidFinish /\ AgentMissing /= {}
               => /\ react_result.result.decision = "clarify_react"
                  /\ react_result.result.trace[Len(react_result.result.trace)] =
                         "clarify_react:agent:ask_user"
                  /\ react_result.result.missing_required_slots /= <<>>

\* the agent finished while the order number it was asked for is still
\* missing: its result asks the user
C35_Witness ==
    /\ Returned
    /\ AgentSaidFinish
    /\ AgentRequiredSlots = <<"order_no">>
    /\ react_result.result.resolved_slots["order_no"] = NULL
    /\ react_result.result.decision = "clarify_react"

\* the agent finished with the order number resolved: continue_business
C35_WitnessContinue ==
    /\ Returned
    /\ AgentSaidFinish
    /\ AgentRequiredSlots = <<"order_no">>
    /\ react_result.result.resolved_slots["order_no"] = "SCN-5"
    /\ react_result.result.decision = "continue_business"

\* ------------------------------------------------ properties of the ReAct agent's loop

\* a turn invokes the agent at most once
C36_InvokedAtMostOnce == react.invocations <= 1

\* the run never takes more steps than its recursion limit
C36_WithinRecursionLimit ==
    react.pc /= "idle" => react.steps <= RecursionLimit(react.max_rounds)

\* no two tool calls of a run are under way together
C36_OneToolCallAtATime == react.parallel <= 1

\* a turn that entered the agent ends with a gate decision
C36_EndsWithDecision ==
    react.pc = "agent" ~>
        (react.pc = "done"
         /\ react.decision \in {"continue_business", "clarify_short_circuit",
                                "clarify_react", "clarify_abort"})

\* C36: each turn invokes the ReAct clarify agent at most once, and that
\* invocation ends within the recursion limit max(4, 2*max_rounds) with tool
\* calls issued one at a time, so a turn always terminates with a gate
\* decision and cannot loop indefinitely in clarification.
C36_BoundedClarify ==
    /\ []C36_InvokedAtMostOnce
    /\ []C36_WithinRecursionLimit
    /\ []C36_OneToolCallAtATime
    /\ C36_EndsWithDecision

\* one AI message carried two tool calls and the tools node ran both together
C36_Diverges ==
    /\ react.pc = "agent"
    /\ react.parallel = 2
    /\ Len(react.tool_results) = 2
    /\ react.steps = 2

\* ---- _collect_segment_minutes_by_scan (billing_engine.py), the reference of
\* test_collect_segment_minutes_by_window_matches_scan

\* the values cursor takes: entry_time, then one minute more per iteration
\* while cursor < exit_time
ScanCursors(entry_time, exit_time) ==
    {entry_time + k * SecondsPerMinute :
        k \in 0..((exit_time - 1 - entry_time) \div SecondsPerMinute)}

\* matched_index at a cursor: the first item of the payload that matches, 0
\* for None
MatchedIndex(normalized_payload, cursor, aware) ==
    LET matching == {i \in 1..Len(normalized_payload) :
                        ItemMatches(cursor, normalized_payload[i], aware)}
    IN IF matching = {} THEN 0
       ELSE CHOOSE i \in matching : \A j \in matching : i <= j

\* the elements of a set of dates in ascending order
AscendingDays(days) ==
    [k \in 1..Cardinality(days) |->
        CHOOSE d \in days : Cardinality({e \in days : e < d}) = k - 1]

\* what the scan returns: segment_minutes (0 where the segment has no key),
\* the keys of segment_day_minutes, and each segment's day map, whose keys
\* stand in the order of their first cursor, that is in ascending order
CollectSegmentMinutesByScan(normalized_payload, entry_time, exit_time, aware) ==
    LET cursors == ScanCursors(entry_time, exit_time)
        matched == [i \in 1..Len(normalized_payload) |->
                       {c \in cursors :
                           MatchedIndex(normalized_payload, c, aware) = i}]
        DayKey(i, c) ==
            LocalDate(ToNamedTimezone(c, ResolveWindowTimezone(normalized_payload[i]),
                                      aware))
        DayMap(i) ==
            LET days == AscendingDays({DayKey(i, c) : c \in matched[i]})
            IN [k \in 1..Len(days) |->
                   [day |-> days[k],
                    minutes |-> Cardinality({c \in matched[i] :
                                                DayKey(i, c) = days[k]})]]
    IN [segment_minutes |->
            [i \in 1..Len(normalized_payload) |-> Cardinality(matched[i])],
        day_map_keys |-> {i \in 1..Len(normalized_payload) : matched[i] /= {}},
        segment_day_minutes |-> [i \in 1..Len(normalized_payload) |-> DayMap(i)]]

ScanOfStay ==
    CollectSegmentMinutesByScan(bill.payload, bill.entry_time, bill.exit_time,
                                bill.aware)

\* C37: for every payload and every entry < exit, collect_segment_minutes_by_window
\* returns what the minute-by-minute scan returns: the same minute total for
\* every segment, day maps for the same segments, and in each day map the
\* same minutes under the same local dates.
C37_WindowMatchesScan ==
    Collected =>
        /\ bill.segment_minutes = ScanOfStay.segment_minutes
        /\ bill.day_map_keys = ScanOfStay.day_map_keys
        /\ bill.segment_day_minutes = ScanOfStay.segment_day_minutes

\* a collected stay that begins and ends off the minute, 07:59:30 to 08:00:10:
\* the window collector has made a day map, an empty one, for a segment whose
\* window opens at 08:00, and the scan, whose only cursor is 07:59:30, has
\* made none; the minute totals agree
C37_Diverges ==
    /\ Collected
    /\ bill.entry_time % SecondsPerMinute /= 0
    /\ \E i \in bill.day_map_keys :
          /\ i \notin ScanOfStay.day_map_keys
          /\ bill.segment_day_minutes[i] = <<>>
          /\ bill.payload[i].time_window /= None
    /\ bill.segment_minutes = ScanOfStay.segment_minutes
    /\ bill.segment_day_minutes = ScanOfStay.segment_day_minutes

\* on whole-minute stays the window collector and the scan return the same
C37_AlignedMatchesScan ==
    (Collected /\ bill.entry_time % SecondsPerMinute = 0
               /\ bill.exit_time % SecondsPerMinute = 0) =>
        /\ bill.segment_minutes = ScanOfStay.segment_minutes
        /\ bill.day_map_keys = ScanOfStay.day_map_keys
        /\ bill.segment_day_minutes = ScanOfStay.segment_day_minutes

\* ResolverDecision (react_clarify_gate.py)
ResolverDecisions ==
    {"continue_business", "clarify_short_circuit", "clarify_react", "clarify_abort"}

\* the gate's result carries one of the four decisions, and no clarify_error
\* exactly when the decision is continue_business
C38_DecisionAndError ==
    pc = "done" =>
        /\ gate_result.decision \in ResolverDecisions
        /\ gate_result.clarify_error = NULL
              <=> gate_result.decision = "continue_business"

\* C38: for every parse and hydrate result and every outcome of the agent, a
\* returned ClarifyResult or an exception, react_clarify_gate_async returns a
\* result with one of the four decisions and with clarify_error null exactly
\* when the decision is continue_business, and nothing in the gate raises.
C38_GateIsTotal ==
    pc = "done" =>
        /\ gate_result.decision \in ResolverDecisions
        /\ gate_result.clarify_error = NULL
              <=> gate_result.decision = "continue_business"
        /\ react_result.kind = "returned" => react_result.rebuilt = "ok"

\* the agent returned a ClarifyResult for a request without intent, and
\* _invoke_react_once, copying it into a new ClarifyResult with six of the ten
\* fields, raised TypeError outside its try
C38_Diverges ==
    /\ pc = "done"
    /\ parse_result.intent = NULL
    /\ react_result.kind = "returned"
    /\ react_result.result.decision = "clarify_react"
    /\ react_result.rebuilt = "TypeError"

C39_KeptWithoutAgent ==
    (pc = "done" /\ react_result.kind /= "returned") =>
        \A k \in SlotKeySet :
            payload[k] /= NULL => gate_result.payload[k] = payload[k]

C40_MinutesWithinDuration ==
    BillDone => SumMinutes(bill.breakdown) <= bill.duration_minutes

\* a priced stay of 90 seconds, 09:00:00 to 09:01:30, inside a segment's
\* window: duration_minutes is 1, the floor of 1.5, and the segment holds the
\* two minute points 09:00:00 and 09:01:00
C40_Diverges ==
    /\ BillDone
    /\ bill.exit_time - bill.entry_time = 90
    /\ bill.duration_minutes = 1
    /\ Len(bill.breakdown) = 1
    /\ bill.breakdown[1].minutes = 2

\* on whole-minute stays the breakdown's minutes stay within duration_minutes
C40_AlignedWithinDuration ==
    (BillDone /\ (bill.exit_time - bill.entry_time) % SecondsPerMinute = 0) =>
        SumMinutes(bill.breakdown) <= bill.duration_minutes

====
